---- MODULE Spec2Model ----
(***************************************************************************)
(* PCF message decoder of ibmmq-go-stat-otel (package pcf): header         *)
(* decoder, parameter stream decoder, value type resolver and aggregate    *)
(* builders, modelled on byte buffers.                                     *)
(*                                                                         *)
(* A byte is a number in 0..255, a Go string is the sequence of its bytes, *)
(* an int32 is a number in -2^31..2^31-1.                                  *)
(***************************************************************************)
EXTENDS Integers, Sequences, FiniteSets, TLC

----------------------------------------------------------------------------
(* Wire-format constants (package pcf).                                    *)

MQCFT_INTEGER == 3
MQCFT_STRING == 4
MQCFT_INTEGER_LIST == 5
MQCFT_BYTE_STRING == 9
MQCFT_STATISTICS == 20
MQCFT_ACCOUNTING == 21

MQCMD_STATISTICS_MQI == 112
MQCMD_STATISTICS_Q == 113
MQCMD_STATISTICS_CHANNEL == 114
MQCMD_ACCOUNTING_MQI == 138
MQCMD_ACCOUNTING_Q == 139

MQCA_Q_NAME == 2016
MQCA_Q_MGR_NAME == 2002
MQCA_CHANNEL_NAME == 3501
MQCA_CONNECTION_NAME == 3502
MQCA_APPL_NAME == 2024
MQIA_CURRENT_Q_DEPTH == 3
MQIA_OPEN_INPUT_COUNT == 65
MQIA_OPEN_OUTPUT_COUNT == 66
MQIA_HIGH_Q_DEPTH == 36
MQIA_MSG_DEQ_COUNT == 38
MQIA_MSG_ENQ_COUNT == 37
MQIACH_MSGS == 1501
MQIACH_BYTES == 1502
MQIACH_BATCHES == 1503
MQIAMO_OPENS == 3
MQIAMO_CLOSES == 4
MQIAMO_PUTS == 17
MQIAMO_GETS == 18
MQIAMO_COMMITS == 12
MQIAMO_BACKOUTS == 13
MQCACF_COMMAND_TIME == 3603

(* Size of the fixed header, of a parameter sub-header, and the largest    *)
(* declared parameter length the stream decoder accepts.                   *)
HeaderSize == 36
ParamHeaderSize == 12
MaxParamLength == 65536

----------------------------------------------------------------------------
(* Bytes and 32-bit integers.                                              *)

Byte == 0..255

(* data[lo:hi] of Go: the bytes at 0-based positions lo .. hi-1.           *)
Slice(data, lo, hi) == SubSeq(data, lo + 1, hi)

(* Fault variant of Int32LE: the four bytes are read most significant      *)
(* first.                                                                  *)
Int32BE(b) ==
    b[4] + b[3] * 256 + b[2] * 65536
         + (IF b[1] >= 128 THEN b[1] - 256 ELSE b[1]) * 16777216

(* int32(binary.LittleEndian.Uint32(b)): the four bytes, least significant *)
(* first, read as a two's complement number.                               *)
Int32LE(b) ==
    b[1] + b[2] * 256 + b[3] * 65536
         + (IF b[4] >= 128 THEN b[4] - 256 ELSE b[4]) * 16777216

(* binary.LittleEndian.PutUint32(buf, uint32(n)) for an int32 n.           *)
PutInt32LE(n) ==
    LET m == IF n < 0 THEN (n + 2147483647) + 1 ELSE n
        top == (m \div 16777216) + (IF n < 0 THEN 128 ELSE 0)
    IN  << m % 256, (m \div 256) % 256, (m \div 65536) % 256, top >>

----------------------------------------------------------------------------
(* Decoded values: the dynamic type of PCFParameter.Value.  kind is "int"  *)
(* (int32), "str" (string), "bytes" ([]byte) or "nil" (no value).          *)

IntValue(n) == [kind |-> "int", i |-> n, s |-> << >>]
StrValue(str) == [kind |-> "str", i |-> 0, s |-> str]
BytesValue(b) == [kind |-> "bytes", i |-> 0, s |-> b]
NilValue == [kind |-> "nil", i |-> 0, s |-> << >>]

(* A nil pointer (no record, no sub-record).                               *)
Nil == [nil |-> TRUE]

(* Left fold of Op over the sequence s: one linear scan, in stream order.  *)
FoldLeft(Op(_, _), base, s) ==
    LET F[k \in 0..Len(s)] == IF k = 0 THEN base ELSE Op(F[k - 1], s[k])
    IN  F[Len(s)]

(* Fault variant of cleanString: after the cut at the first NUL the        *)
(* trailing spaces are trimmed too.                                        *)
cleanStringTrimmed(str) ==
    LET cut == IF \E k \in 1..Len(str) : str[k] = 0
               THEN SubSeq(str, 1, (CHOOSE k \in 1..Len(str) :
                                        /\ str[k] = 0
                                        /\ \A j \in 1..(k - 1) : str[j] # 0) - 1)
               ELSE str
        kept == { k \in 1..Len(cut) : cut[k] # 32 }
    IN  IF kept = {}
        THEN << >>
        ELSE SubSeq(cut, 1, CHOOSE k \in kept : \A j \in kept : j <= k)

(* cleanString: the string is cut at its first NUL; nothing else is        *)
(* trimmed.                                                                *)
cleanString(str) ==
    IF \E k \in 1..Len(str) : str[k] = 0
    THEN LET first == CHOOSE k \in 1..Len(str) :
                          /\ str[k] = 0
                          /\ \A j \in 1..(k - 1) : str[j] # 0
         IN  SubSeq(str, 1, first - 1)
    ELSE str

----------------------------------------------------------------------------
(* Header decoder.                                                         *)

parseHeader(data) ==
    IF Len(data) < HeaderSize
    THEN [err |-> TRUE, header |-> Nil]
    ELSE [err |-> FALSE,
          header |-> [Type           |-> Int32LE(Slice(data, 0, 4)),
                      StrucLength    |-> Int32LE(Slice(data, 4, 8)),
                      Version        |-> Int32LE(Slice(data, 8, 12)),
                      Command        |-> Int32LE(Slice(data, 12, 16)),
                      MsgSeqNumber   |-> Int32LE(Slice(data, 16, 20)),
                      Control        |-> Int32LE(Slice(data, 20, 24)),
                      CompCode       |-> Int32LE(Slice(data, 24, 28)),
                      Reason         |-> Int32LE(Slice(data, 28, 32)),
                      ParameterCount |-> Int32LE(Slice(data, 32, 36))]]

----------------------------------------------------------------------------
(* Value type resolver: the value of the parameter whose sub-header starts *)
(* at offset of data, with type tag type and declared length length        *)
(* (12 <= length, offset + length <= Len(data)).                           *)

(* Fault variant of ParamValue: an integer needs more than 16 bytes.       *)
ParamValueLongInteger(data, offset, type, length) ==
    IF type = MQCFT_INTEGER
    THEN IF length > 16
         THEN IntValue(Int32LE(Slice(data, offset + 12, offset + 16)))
         ELSE NilValue
    ELSE IF type = MQCFT_STRING
    THEN IF length > 12
         THEN StrValue(cleanString(Slice(data, offset + 12, offset + length)))
         ELSE NilValue
    ELSE IF type = MQCFT_BYTE_STRING
    THEN IF length > 12
         THEN BytesValue(Slice(data, offset + 12, offset + length))
         ELSE NilValue
    ELSE NilValue

ParamValue(data, offset, type, length) ==
    IF type = MQCFT_INTEGER
    THEN IF length >= 16
         THEN IntValue(Int32LE(Slice(data, offset + 12, offset + 16)))
         ELSE NilValue
    ELSE IF type = MQCFT_STRING
    THEN IF length > 12
         THEN StrValue(cleanString(Slice(data, offset + 12, offset + length)))
         ELSE NilValue
    ELSE IF type = MQCFT_BYTE_STRING
    THEN IF length > 12
         THEN BytesValue(Slice(data, offset + 12, offset + length))
         ELSE NilValue
    ELSE NilValue

(* The cursor after a parameter of declared length length read at offset:  *)
(* offset + length, rounded up to a multiple of 4.                         *)
(* Fault variant of NextOffset: the cursor is not aligned.                 *)
NextOffsetUnaligned(offset, length) == offset + length

NextOffset(offset, length) ==
    LET end == offset + length
    IN  IF end % 4 # 0 THEN end + (4 - (end % 4)) ELSE end

----------------------------------------------------------------------------
(* Sub-record builders.  Each is one scan of the parameter sequence; the   *)
(* ...Step operator is the body of its loop.                               *)

ZeroQueueStatistics ==
    [QueueName |-> << >>, CurrentDepth |-> 0, HighDepth |-> 0,
     InputCount |-> 0, OutputCount |-> 0, EnqueueCount |-> 0,
     DequeueCount |-> 0, HasReaders |-> FALSE, HasWriters |-> FALSE]

(* Fault variant of QueueStatsStep: a reader or writer flag, once set,     *)
(* stays set when a later handle count is not positive.                    *)
QueueStatsStepSticky(stats, param) ==
    IF param.Value.kind = "int"
    THEN LET val == param.Value.i
         IN  CASE param.Parameter = MQIA_CURRENT_Q_DEPTH ->
                      [stats EXCEPT !.CurrentDepth = val]
               [] param.Parameter = MQIA_HIGH_Q_DEPTH ->
                      [stats EXCEPT !.HighDepth = val]
               [] param.Parameter = MQIA_OPEN_INPUT_COUNT ->
                      [stats EXCEPT !.InputCount = val,
                                    !.HasReaders = (stats.HasReaders \/ val > 0)]
               [] param.Parameter = MQIA_OPEN_OUTPUT_COUNT ->
                      [stats EXCEPT !.OutputCount = val,
                                    !.HasWriters = (stats.HasWriters \/ val > 0)]
               [] param.Parameter = MQIA_MSG_ENQ_COUNT ->
                      [stats EXCEPT !.EnqueueCount = val]
               [] param.Parameter = MQIA_MSG_DEQ_COUNT ->
                      [stats EXCEPT !.DequeueCount = val]
               [] OTHER -> stats
    ELSE IF param.Value.kind = "str"
    THEN IF param.Parameter = MQCA_Q_NAME
         THEN [stats EXCEPT !.QueueName = param.Value.s]
         ELSE stats
    ELSE stats

QueueStatsStep(stats, param) ==
    IF param.Value.kind = "int"
    THEN LET val == param.Value.i
         IN  CASE param.Parameter = MQIA_CURRENT_Q_DEPTH ->
                      [stats EXCEPT !.CurrentDepth = val]
               [] param.Parameter = MQIA_HIGH_Q_DEPTH ->
                      [stats EXCEPT !.HighDepth = val]
               [] param.Parameter = MQIA_OPEN_INPUT_COUNT ->
                      [stats EXCEPT !.InputCount = val, !.HasReaders = (val > 0)]
               [] param.Parameter = MQIA_OPEN_OUTPUT_COUNT ->
                      [stats EXCEPT !.OutputCount = val, !.HasWriters = (val > 0)]
               [] param.Parameter = MQIA_MSG_ENQ_COUNT ->
                      [stats EXCEPT !.EnqueueCount = val]
               [] param.Parameter = MQIA_MSG_DEQ_COUNT ->
                      [stats EXCEPT !.DequeueCount = val]
               [] OTHER -> stats
    ELSE IF param.Value.kind = "str"
    THEN IF param.Parameter = MQCA_Q_NAME
         THEN [stats EXCEPT !.QueueName = param.Value.s]
         ELSE stats
    ELSE stats

parseQueueStats(parameters) ==
    FoldLeft(QueueStatsStep, ZeroQueueStatistics, parameters)

ZeroChannelStatistics ==
    [ChannelName |-> << >>, ConnectionName |-> << >>,
     Messages |-> 0, Bytes |-> 0, Batches |-> 0]

ChannelStatsStep(stats, param) ==
    IF param.Value.kind = "int"
    THEN LET val == param.Value.i
         IN  CASE param.Parameter = MQIACH_MSGS ->
                      [stats EXCEPT !.Messages = val]
               [] param.Parameter = MQIACH_BYTES ->
                      [stats EXCEPT !.Bytes = val]
               [] param.Parameter = MQIACH_BATCHES ->
                      [stats EXCEPT !.Batches = val]
               [] OTHER -> stats
    ELSE IF param.Value.kind = "str"
    THEN CASE param.Parameter = MQCA_CHANNEL_NAME ->
                  [stats EXCEPT !.ChannelName = param.Value.s]
           [] param.Parameter = MQCA_CONNECTION_NAME ->
                  [stats EXCEPT !.ConnectionName = param.Value.s]
           [] OTHER -> stats
    ELSE stats

parseChannelStats(parameters) ==
    FoldLeft(ChannelStatsStep, ZeroChannelStatistics, parameters)

ZeroMQIStatistics ==
    [ApplicationName |-> << >>, Opens |-> 0, Closes |-> 0, Puts |-> 0,
     Gets |-> 0, Commits |-> 0, Backouts |-> 0]

MQIStatsStep(stats, param) ==
    IF param.Value.kind = "int"
    THEN LET val == param.Value.i
         IN  CASE param.Parameter = MQIAMO_OPENS ->
                      [stats EXCEPT !.Opens = val]
               [] param.Parameter = MQIAMO_CLOSES ->
                      [stats EXCEPT !.Closes = val]
               [] param.Parameter = MQIAMO_PUTS ->
                      [stats EXCEPT !.Puts = val]
               [] param.Parameter = MQIAMO_GETS ->
                      [stats EXCEPT !.Gets = val]
               [] param.Parameter = MQIAMO_COMMITS ->
                      [stats EXCEPT !.Commits = val]
               [] param.Parameter = MQIAMO_BACKOUTS ->
                      [stats EXCEPT !.Backouts = val]
               [] OTHER -> stats
    ELSE IF param.Value.kind = "str"
    THEN IF param.Parameter = MQCA_APPL_NAME
         THEN [stats EXCEPT !.ApplicationName = param.Value.s]
         ELSE stats
    ELSE stats

parseMQIStats(parameters) ==
    FoldLeft(MQIStatsStep, ZeroMQIStatistics, parameters)

(* The zero time.Time (the connect and disconnect times are never set).    *)
ZeroTime == << 1, 1, 1, 0, 0, 0, 0 >>

ZeroConnectionInfo ==
    [ChannelName |-> << >>, ConnectionName |-> << >>,
     ApplicationName |-> << >>, ConnectTime |-> ZeroTime,
     DisconnectTime |-> ZeroTime]

ConnectionInfoStep(info, param) ==
    IF param.Value.kind = "str"
    THEN CASE param.Parameter = MQCA_CHANNEL_NAME ->
                  [info EXCEPT !.ChannelName = param.Value.s]
           [] param.Parameter = MQCA_CONNECTION_NAME ->
                  [info EXCEPT !.ConnectionName = param.Value.s]
           [] param.Parameter = MQCA_APPL_NAME ->
                  [info EXCEPT !.ApplicationName = param.Value.s]
           [] OTHER -> info
    ELSE info

parseConnectionInfo(parameters) ==
    FoldLeft(ConnectionInfoStep, ZeroConnectionInfo, parameters)

ZeroOperationCounts ==
    [Gets |-> 0, Puts |-> 0, Browses |-> 0, Opens |-> 0, Closes |-> 0,
     Commits |-> 0, Backouts |-> 0]

(* Fault variant of OperationCountsStep: the counts are accumulated.       *)
OperationCountsStepSumming(ops, param) ==
    IF param.Value.kind = "int"
    THEN LET val == param.Value.i
         IN  CASE param.Parameter = MQIAMO_GETS ->
                      [ops EXCEPT !.Gets = ops.Gets + val]
               [] param.Parameter = MQIAMO_PUTS ->
                      [ops EXCEPT !.Puts = ops.Puts + val]
               [] param.Parameter = MQIAMO_OPENS ->
                      [ops EXCEPT !.Opens = ops.Opens + val]
               [] param.Parameter = MQIAMO_CLOSES ->
                      [ops EXCEPT !.Closes = ops.Closes + val]
               [] param.Parameter = MQIAMO_COMMITS ->
                      [ops EXCEPT !.Commits = ops.Commits + val]
               [] param.Parameter = MQIAMO_BACKOUTS ->
                      [ops EXCEPT !.Backouts = ops.Backouts + val]
               [] OTHER -> ops
    ELSE ops

OperationCountsStep(ops, param) ==
    IF param.Value.kind = "int"
    THEN LET val == param.Value.i
         IN  CASE param.Parameter = MQIAMO_GETS ->
                      [ops EXCEPT !.Gets = val]
               [] param.Parameter = MQIAMO_PUTS ->
                      [ops EXCEPT !.Puts = val]
               [] param.Parameter = MQIAMO_OPENS ->
                      [ops EXCEPT !.Opens = val]
               [] param.Parameter = MQIAMO_CLOSES ->
                      [ops EXCEPT !.Closes = val]
               [] param.Parameter = MQIAMO_COMMITS ->
                      [ops EXCEPT !.Commits = val]
               [] param.Parameter = MQIAMO_BACKOUTS ->
                      [ops EXCEPT !.Backouts = val]
               [] OTHER -> ops
    ELSE ops

parseOperationCounts(parameters) ==
    FoldLeft(OperationCountsStep, ZeroOperationCounts, parameters)

(* Character codes used by the formatting and the scanning of text.        *)
Ascii ==
    [space |-> 32, plus |-> 43, comma |-> 44, minus |-> 45, period |-> 46,
     zero |-> 48, nine |-> 57, colon |-> 58, T |-> 84, Z |-> 90]

(* convertParameters: the raw parameter map.  The key of a parameter is    *)
(* the text "param_" followed by its tag in decimal; a later parameter     *)
(* with the same tag replaces the entry.                                   *)

(* The decimal digits of a natural number.                                 *)
RECURSIVE DecimalDigits(_)
DecimalDigits(n) ==
    IF n < 10
    THEN << Ascii.zero + n >>
    ELSE DecimalDigits(n \div 10) \o << Ascii.zero + (n % 10) >>

(* fmt.Sprintf("param_%d", tag).                                           *)
ParamKey(tag) ==
    << 112, 97, 114, 97, 109, 95 >>
        \o (IF tag < 0 THEN << Ascii.minus >> \o DecimalDigits(-tag)
                       ELSE DecimalDigits(tag))

(* Fault variant of ConvertStep: a parameter without a value gets no       *)
(* entry.                                                                  *)
ConvertStepSkipsAbsent(result, param) ==
    IF param.Value.kind = "nil"
    THEN result
    ELSE [k \in (DOMAIN result) \cup {ParamKey(param.Parameter)} |->
             IF k = ParamKey(param.Parameter) THEN param.Value ELSE result[k]]

ConvertStep(result, param) ==
    LET key == ParamKey(param.Parameter)
    IN  [k \in (DOMAIN result) \cup {key} |->
            IF k = key THEN param.Value ELSE result[k]]

convertParameters(parameters) ==
    FoldLeft(ConvertStep, << >>, parameters)

----------------------------------------------------------------------------
(* parseMQTimestamp: time.Parse of the text against five layouts, first    *)
(* success wins.  A time is <<year, month, day, hour, min, sec, nsec>>.    *)
(* A layout is a sequence of elements: a literal character or a field.     *)

Lit(c) == [kind |-> "lit", ch |-> c]
Fld(name) == [kind |-> name, ch |-> 0]

DateTimeElems(sep) ==
    << Fld("year"), Lit(Ascii.minus), Fld("month"), Lit(Ascii.minus), Fld("day"),
       Lit(sep), Fld("hour"), Lit(Ascii.colon), Fld("min"), Lit(Ascii.colon),
       Fld("sec") >>

(* "2006-01-02 15:04:05.000", "2006-01-02 15:04:05", "20060102150405",     *)
(* "2006-01-02T15:04:05Z", "2006-01-02T15:04:05.000Z".                     *)
TimestampFormats ==
    << DateTimeElems(Ascii.space) \o << Fld("frac3") >>,
       DateTimeElems(Ascii.space),
       << Fld("year"), Fld("month"), Fld("day"), Fld("hour"), Fld("min"),
          Fld("sec") >>,
       DateTimeElems(Ascii.T) \o << Lit(Ascii.Z) >>,
       DateTimeElems(Ascii.T) \o << Fld("frac3"), Lit(Ascii.Z) >> >>

IsDigitAt(v, k) == k <= Len(v) /\ v[k] >= Ascii.zero /\ v[k] <= Ascii.nine

AllDigits(v) == \A k \in 1..Len(v) : IsDigitAt(v, k)

(* The number written by the digits of v (0 for the empty string).         *)
DigitsValue(v) ==
    LET F[k \in 0..Len(v)] ==
            IF k = 0 THEN 0 ELSE F[k - 1] * 10 + (v[k] - Ascii.zero)
    IN  F[Len(v)]

Pow10(n) ==
    LET F[k \in 0..n] == IF k = 0 THEN 1 ELSE 10 * F[k - 1]
    IN  F[n]

Tail1(v) == SubSeq(v, 2, Len(v))
Drop(v, n) == SubSeq(v, n + 1, Len(v))

(* cutspace: v without its leading spaces.                                 *)
CutSpace(v) ==
    IF \E k \in 1..Len(v) : v[k] # Ascii.space
    THEN LET first == CHOOSE k \in 1..Len(v) :
                          /\ v[k] # Ascii.space
                          /\ \A j \in 1..(k - 1) : v[j] = Ascii.space
         IN  Drop(v, first - 1)
    ELSE << >>

(* getnum(s, fixed): a one- or two-digit number (two digits when fixed).   *)
GetNum(v, fixed) ==
    IF ~IsDigitAt(v, 1) THEN [ok |-> FALSE, n |-> 0, rest |-> v]
    ELSE IF ~IsDigitAt(v, 2)
    THEN IF fixed THEN [ok |-> FALSE, n |-> 0, rest |-> v]
         ELSE [ok |-> TRUE, n |-> v[1] - Ascii.zero, rest |-> Tail1(v)]
    ELSE [ok |-> TRUE, n |-> DigitsValue(SubSeq(v, 1, 2)), rest |-> Drop(v, 2)]

(* atoi of the time package: an optional sign, then digits only.           *)
IsSigned(v) == Len(v) > 0 /\ v[1] \in {Ascii.minus, Ascii.plus}

Unsigned(v) == IF IsSigned(v) THEN Tail1(v) ELSE v

Atoi(v) ==
    IF ~AllDigits(Unsigned(v)) THEN [ok |-> FALSE, n |-> 0]
    ELSE IF IsSigned(v) /\ v[1] = Ascii.minus
    THEN [ok |-> TRUE, n |-> 0 - DigitsValue(Unsigned(v))]
    ELSE [ok |-> TRUE, n |-> DigitsValue(Unsigned(v))]

(* parseNanoseconds(value, nbytes), nbytes <= Len(value): a separator and  *)
(* nbytes - 1 digits (at most nine are kept), scaled to nanoseconds.       *)
Min10(n) == IF n > 10 THEN 10 ELSE n

ScaleNanoseconds(a, nb) ==
    IF ~a.ok \/ a.n < 0 THEN [ok |-> FALSE, n |-> 0]
    ELSE [ok |-> TRUE, n |-> a.n * Pow10(10 - nb)]

ParseNanoseconds(v, nbytes) ==
    IF v[1] \notin {Ascii.period, Ascii.comma} THEN [ok |-> FALSE, n |-> 0]
    ELSE ScaleNanoseconds(Atoi(SubSeq(v, 2, Min10(nbytes))), Min10(nbytes))

(* Length of the fractional second that may follow the seconds field when  *)
(* the layout has none: separator plus the run of digits after it.         *)
FracRun(v) ==
    IF \E k \in 2..Len(v) : ~IsDigitAt(v, k)
    THEN (CHOOSE k \in 2..Len(v) :
              /\ ~IsDigitAt(v, k)
              /\ \A j \in 2..(k - 1) : IsDigitAt(v, j)) - 1
    ELSE Len(v)

IsLeap(year) == year % 4 = 0 /\ (year % 100 # 0 \/ year % 400 = 0)

DaysIn(month, year) ==
    IF month = 2 THEN (IF IsLeap(year) THEN 29 ELSE 28)
    ELSE IF month \in {4, 6, 9, 11} THEN 30 ELSE 31

(* The parse state: what is left of the value, the fields read so far.     *)
ParseFail(st) == [st EXCEPT !.ok = FALSE]

(* A literal of the layout: a space matches a run of spaces.               *)
ElemLit(st, ch) ==
    IF ch = Ascii.space
    THEN IF Len(st.rest) > 0 /\ st.rest[1] # Ascii.space THEN ParseFail(st)
         ELSE [st EXCEPT !.rest = CutSpace(st.rest)]
    ELSE IF Len(st.rest) = 0 \/ st.rest[1] # ch THEN ParseFail(st)
         ELSE [st EXCEPT !.rest = Tail1(st.rest)]

(* "2006": four digits.                                                    *)
ElemYear(st) ==
    IF Len(st.rest) < 4 \/ ~AllDigits(SubSeq(st.rest, 1, 4)) THEN ParseFail(st)
    ELSE [st EXCEPT !.t[1] = DigitsValue(SubSeq(st.rest, 1, 4)),
                    !.rest = Drop(st.rest, 4)]

(* A numeric field g read by getnum, stored as field idx when lo..hi.      *)
ElemNum(st, g, idx, lo, hi) ==
    IF ~g.ok \/ g.n < lo \/ g.n > hi THEN ParseFail(st)
    ELSE [st EXCEPT !.t[idx] = g.n, !.rest = g.rest]

(* The fractional second f of n bytes read at the head of the value.       *)
ElemFrac(st, f, n) ==
    IF ~f.ok THEN ParseFail(st)
    ELSE [st EXCEPT !.t[7] = f.n, !.rest = Drop(st.rest, n)]

(* After "05": a fractional second is read although the layout has none.   *)
ElemSecFraction(st, next) ==
    IF /\ st.ok
       /\ Len(st.rest) >= 2
       /\ st.rest[1] \in {Ascii.period, Ascii.comma}
       /\ IsDigitAt(st.rest, 2)
       /\ next.kind # "frac3"
    THEN ElemFrac(st, ParseNanoseconds(st.rest, FracRun(st.rest)),
                  FracRun(st.rest))
    ELSE st

(* ".000": a separator and exactly three digits.                           *)
ElemFrac3(st) ==
    IF Len(st.rest) < 4 THEN ParseFail(st)
    ELSE ElemFrac(st, ParseNanoseconds(st.rest, 4), 4)

(* One element of the layout applied to the parse state st; next is the    *)
(* following element of the layout (or a literal NUL at its end).  The day *)
(* is any one- or two-digit number here and is validated at the end.       *)
ParseElem(st, e, next) ==
    IF ~st.ok THEN st
    ELSE CASE e.kind = "lit" -> ElemLit(st, e.ch)
           [] e.kind = "year" -> ElemYear(st)
           [] e.kind = "month" -> ElemNum(st, GetNum(st.rest, TRUE), 2, 1, 12)
           [] e.kind = "day" -> ElemNum(st, GetNum(st.rest, TRUE), 3, 0, 99)
           [] e.kind = "hour" -> ElemNum(st, GetNum(st.rest, FALSE), 4, 0, 23)
           [] e.kind = "min" -> ElemNum(st, GetNum(st.rest, TRUE), 5, 0, 59)
           [] e.kind = "sec" ->
                  ElemSecFraction(ElemNum(st, GetNum(st.rest, TRUE), 6, 0, 59),
                                  next)
           [] e.kind = "frac3" -> ElemFrac3(st)

TimeParseEnd(end) ==
    IF /\ end.ok
       /\ Len(end.rest) = 0
       /\ end.t[3] >= 1
       /\ end.t[3] <= DaysIn(end.t[2], end.t[1])
    THEN [ok |-> TRUE, t |-> end.t]
    ELSE [ok |-> FALSE, t |-> ZeroTime]

(* time.Parse(layout, value).                                              *)
TimeParse(layout, value) ==
    LET F[k \in 0..Len(layout)] ==
            IF k = 0
            THEN [ok |-> TRUE, rest |-> value, t |-> << 0, 1, 1, 0, 0, 0, 0 >>]
            ELSE ParseElem(F[k - 1], layout[k],
                           IF k < Len(layout) THEN layout[k + 1] ELSE Lit(0))
    IN  TimeParseEnd(F[Len(layout)])

(* The result of one format if it parsed, the result of the later ones     *)
(* otherwise.                                                              *)
FirstParsed(p, later) == IF p.ok THEN [err |-> FALSE, t |-> p.t] ELSE later

parseMQTimestamp(timestamp) ==
    LET R[k \in 1..(Len(TimestampFormats) + 1)] ==
            IF k > Len(TimestampFormats)
            THEN [err |-> TRUE, t |-> ZeroTime]
            ELSE FirstParsed(TimeParse(TimestampFormats[k], timestamp), R[k + 1])
    IN  R[1]

----------------------------------------------------------------------------
(* Aggregate builders.  now is the value of time.Now() read by the         *)
(* builder.                                                                *)

(* The common fields of a record: the queue-manager name and the           *)
(* timestamp, scanned from the parameters.                                 *)
(* Fault variant of SetTimestamp: the time returned by parseMQTimestamp    *)
(* is stored also when it comes with an error.                             *)
SetTimestampAlways(rec, parsed) == [rec EXCEPT !.Timestamp = parsed.t]

SetTimestamp(rec, parsed) ==
    IF parsed.err THEN rec ELSE [rec EXCEPT !.Timestamp = parsed.t]

CommonStep(rec, param) ==
    IF param.Parameter = MQCA_Q_MGR_NAME
    THEN IF param.Value.kind = "str"
         THEN [rec EXCEPT !.QueueManager = param.Value.s]
         ELSE rec
    ELSE IF param.Parameter = MQCACF_COMMAND_TIME
    THEN IF param.Value.kind = "str"
         THEN SetTimestamp(rec, parseMQTimestamp(param.Value.s))
         ELSE rec
    ELSE rec

(* Fault variant of parseStatistics: every sub-record is built, whatever   *)
(* the command code is.                                                    *)
parseStatisticsEverySubRecord(header, parameters, now) ==
    [FoldLeft(CommonStep,
              [variant      |-> "StatisticsData",
               Type         |-> "statistics",
               QueueManager |-> << >>,
               Timestamp    |-> now,
               Parameters   |-> convertParameters(parameters),
               QueueStats   |-> Nil,
               ChannelStats |-> Nil,
               MQIStats     |-> Nil],
              parameters)
        EXCEPT !.QueueStats = parseQueueStats(parameters),
               !.ChannelStats = parseChannelStats(parameters),
               !.MQIStats = parseMQIStats(parameters)]

parseStatistics(header, parameters, now) ==
    LET stats == FoldLeft(CommonStep,
                          [variant      |-> "StatisticsData",
                           Type         |-> "statistics",
                           QueueManager |-> << >>,
                           Timestamp    |-> now,
                           Parameters   |-> convertParameters(parameters),
                           QueueStats   |-> Nil,
                           ChannelStats |-> Nil,
                           MQIStats     |-> Nil],
                          parameters)
    IN  CASE header.Command = MQCMD_STATISTICS_Q ->
                 [stats EXCEPT !.QueueStats = parseQueueStats(parameters)]
          [] header.Command = MQCMD_STATISTICS_CHANNEL ->
                 [stats EXCEPT !.ChannelStats = parseChannelStats(parameters)]
          [] header.Command = MQCMD_STATISTICS_MQI ->
                 [stats EXCEPT !.MQIStats = parseMQIStats(parameters)]
          [] OTHER -> stats

parseAccounting(header, parameters, now) ==
    LET acct == FoldLeft(CommonStep,
                         [variant        |-> "AccountingData",
                          Type           |-> "accounting",
                          QueueManager   |-> << >>,
                          Timestamp      |-> now,
                          Parameters     |-> convertParameters(parameters),
                          ConnectionInfo |-> Nil,
                          Operations     |-> Nil],
                         parameters)
    IN  [acct EXCEPT !.ConnectionInfo = parseConnectionInfo(parameters),
                     !.Operations = parseOperationCounts(parameters)]

(* The default branch of ParseMessage: a generic record.                   *)
GenericRecord(msgType, parameters, now) ==
    [variant      |-> "StatisticsData",
     Type         |-> msgType,
     QueueManager |-> << >>,
     Timestamp    |-> now,
     Parameters   |-> convertParameters(parameters),
     QueueStats   |-> Nil,
     ChannelStats |-> Nil,
     MQIStats     |-> Nil]

IsStatisticsCommand(command) ==
    \/ command = MQCMD_STATISTICS_Q
    \/ command = MQCMD_STATISTICS_CHANNEL
    \/ command = MQCMD_STATISTICS_MQI

IsAccountingCommand(command) ==
    \/ command = MQCMD_ACCOUNTING_Q
    \/ command = MQCMD_ACCOUNTING_MQI

----------------------------------------------------------------------------
(* Message fixtures: how the tests of the package build their buffers.     *)

Concat(seqs) == FoldLeft(LAMBDA a, b : a \o b, << >>, seqs)

Zeros(n) == [k \in 1..n |-> 0]

createTestPCFHeader(msgType, command, paramCount) ==
    Concat(<< PutInt32LE(msgType), PutInt32LE(36), PutInt32LE(1),
              PutInt32LE(command), PutInt32LE(1), PutInt32LE(0),
              PutInt32LE(0), PutInt32LE(0), PutInt32LE(paramCount) >>)

(* A parameter whose text value is padded with NULs to a multiple of 4;    *)
(* the declared length includes the padding.                               *)
createTestPCFParameter(param, paramType, value) ==
    LET raw == 12 + Len(value)
        paramLen == IF raw % 4 # 0 THEN raw + (4 - (raw % 4)) ELSE raw
    IN  Concat(<< PutInt32LE(param), PutInt32LE(paramType),
                  PutInt32LE(paramLen), value, Zeros(paramLen - raw) >>)

(* A 16-byte integer parameter.                                            *)
createTestIntParameter(param, value) ==
    Concat(<< PutInt32LE(param), PutInt32LE(MQCFT_INTEGER), PutInt32LE(16),
              PutInt32LE(value) >>)

(* Any sub-header followed by any bytes: the declared length need not be   *)
(* the number of bytes that follow.                                        *)
RawParameter(param, paramType, declared, bytes) ==
    Concat(<< PutInt32LE(param), PutInt32LE(paramType), PutInt32LE(declared),
              bytes >>)

----------------------------------------------------------------------------
(* Inputs of the model.                                                    *)

(* Largest number of parameter chunks in a generated message.              *)
MaxParams == 2

SeqUpTo(n, S) == UNION {[1..k -> S] : k \in 0..n}

(* Texts: "Q1", "A", "M" and two command times.                            *)
TextQ1 == << 81, 49 >>
TextA == << 65 >>
TextM == << 77 >>
TextTime == << 50, 48, 50, 51, 49, 49, 48, 56, 49, 53, 51, 48, 52, 53 >>
TextBadTime == << 105, 110 >>

(* The value of time.Now() during the decoding.                            *)
ClockNow == << 2026, 11, 6, 10, 0, 0, 0 >>

(* Well-formed parameters.                                                 *)
GoodChunks ==
    { createTestIntParameter(MQIA_OPEN_INPUT_COUNT, 2),
      createTestIntParameter(MQIA_OPEN_INPUT_COUNT, 0),
      createTestIntParameter(MQIA_MSG_DEQ_COUNT, 5),
      createTestIntParameter(MQIA_CURRENT_Q_DEPTH, -1),
      createTestPCFParameter(MQCA_Q_NAME, MQCFT_STRING, TextQ1),
      createTestPCFParameter(MQCA_APPL_NAME, MQCFT_STRING, TextA),
      createTestPCFParameter(MQCA_Q_MGR_NAME, MQCFT_STRING, TextM),
      createTestPCFParameter(MQCACF_COMMAND_TIME, MQCFT_STRING, TextTime),
      createTestPCFParameter(MQCACF_COMMAND_TIME, MQCFT_STRING, TextBadTime) }

(* Parameters the fixtures never build: a length that is no multiple of 4  *)
(* (text with an embedded NUL, a byte blob), a value too short for its     *)
(* type, a type the decoder does not know.                                 *)
OddChunks ==
    { RawParameter(MQCA_Q_NAME, MQCFT_STRING, 15, << 81, 0, 88, 7 >>),
      RawParameter(7000, MQCFT_BYTE_STRING, 14, << 0, 9, 0, 0 >>),
      RawParameter(MQIA_OPEN_INPUT_COUNT, MQCFT_INTEGER_LIST, 16, << 2, 0, 0, 0 >>),
      RawParameter(MQIA_OPEN_INPUT_COUNT, MQCFT_INTEGER, 12, << >>),
      RawParameter(MQIA_OPEN_INPUT_COUNT, MQCFT_INTEGER, 14, << 1, 0, 0, 0 >>),
      RawParameter(MQCA_Q_NAME, MQCFT_STRING, 12, << >>) }

(* Parameters with a bad declared length (8, followed by a well-formed     *)
(* parameter; 65537; -1; 20 with only 16 bytes present) and five stray     *)
(* bytes.                                                                  *)
BadChunks ==
    { RawParameter(MQIA_OPEN_INPUT_COUNT, MQCFT_INTEGER, 8, << 2, 0, 0, 0 >>)
          \o createTestIntParameter(MQIA_MSG_DEQ_COUNT, 5),
      RawParameter(MQIA_OPEN_INPUT_COUNT, MQCFT_INTEGER, 65537, << 2, 0, 0, 0 >>),
      RawParameter(MQIA_OPEN_INPUT_COUNT, MQCFT_INTEGER, -1, << 2, 0, 0, 0 >>),
      RawParameter(MQIA_OPEN_INPUT_COUNT, MQCFT_INTEGER, 20, << 2, 0, 0, 0 >>),
      << 1, 2, 3, 4, 5 >> }

Chunks == GoodChunks \cup OddChunks \cup BadChunks

(* Command codes: the five known ones and two the decoder does not know.   *)
Commands ==
    { MQCMD_STATISTICS_MQI, MQCMD_STATISTICS_Q, MQCMD_STATISTICS_CHANNEL,
      MQCMD_ACCOUNTING_MQI, MQCMD_ACCOUNTING_Q, 153, -1 }

(* The message-type argument: what the two callers pass.                   *)
MsgTypes == { "statistics", "accounting" }

HeaderTypeOf(command) ==
    IF IsAccountingCommand(command) THEN MQCFT_ACCOUNTING ELSE MQCFT_STATISTICS

(* Messages with a full header, and buffers too short for one (nil, empty, *)
(* 1..35 bytes).                                                           *)
FullMessages ==
    { createTestPCFHeader(HeaderTypeOf(c), c, Len(chunks)) \o Concat(chunks) :
        c \in Commands, chunks \in SeqUpTo(MaxParams, Chunks) }

ShortBuffers ==
    { [k \in 1..n |-> b] : n \in 0..(HeaderSize - 1), b \in {0, 255} }

----------------------------------------------------------------------------
(* State of one call of ParseMessage.                                      *)

VARIABLES
    data,        \* the buffer passed to ParseMessage
    msgType,     \* the message-type argument
    pc,          \* "start", "params" (in the loop of parseParameters),
                 \* "dispatch" (parseParameters returned), "done"
    header,      \* the decoded header, Nil before it is decoded
    offset,      \* cursor of parseParameters into data[36:]
    parameters,  \* the parameters decoded so far
    result,      \* the record returned by ParseMessage, Nil if none
    err,         \* the error returned by ParseMessage, "" if none
    built,       \* the sub-record returned by a builder called on its own
                 \* (as the tests of the package call it), Nil if none
    collector,   \* the collector and its metrics during a collection cycle,
                 \* Nil where only the decoder runs
    client,      \* the MQ client: connected flag and the two queue handles
    queues,      \* the queue manager's side: what the next gets will answer
    ctx,         \* the context passed to Start: "active" or "cancelled"
    calls        \* the calls made so far to the MQ library and to
                 \* collectMetrics, in order

(* The variables of the client side, untouched by the decoder.            *)
clientVars == << client, queues, ctx, calls >>

vars ==
    << data, msgType, pc, header, offset, parameters, result, err, built,
       collector, clientVars >>

NoError == ""

(* data[36:], the bytes handed to parseParameters.                         *)
Body == Slice(data, HeaderSize, Len(data))

(* Where no client is involved the variables of the client side are Nil.   *)
NoClient ==
    /\ client = Nil
    /\ queues = Nil
    /\ ctx = Nil
    /\ calls = Nil

Init ==
    /\ data \in FullMessages \cup ShortBuffers
    /\ msgType \in MsgTypes
    /\ pc = "start"
    /\ header = Nil
    /\ offset = 0
    /\ parameters = << >>
    /\ result = Nil
    /\ err = NoError
    /\ built = Nil
    /\ collector = Nil
    /\ NoClient

(* Fault variant of ParseMessageTooShort: a short buffer is answered with  *)
(* an empty generic record instead of an error.                            *)
ParseMessageTooShortLenient ==
    /\ pc = "start"
    /\ Len(data) < HeaderSize
    /\ err' = NoError
    /\ result' = GenericRecord(msgType, << >>, ClockNow)
    /\ pc' = "done"
    /\ UNCHANGED << data, msgType, header, offset, parameters, built, collector, clientVars >>

(* ParseMessage, buffer shorter than a header: an error and nil.           *)
ParseMessageTooShort ==
    /\ pc = "start"
    /\ Len(data) < HeaderSize
    /\ err' = "message too short to be a valid PCF message"
    /\ result' = Nil
    /\ pc' = "done"
    /\ UNCHANGED << data, msgType, header, offset, parameters, built, collector, clientVars >>

(* ParseMessage up to the call of parseParameters.                         *)
ParseMessageHeader ==
    /\ pc = "start"
    /\ Len(data) >= HeaderSize
    /\ IF parseHeader(data).err
       THEN /\ err' = "failed to parse PCF header"
            /\ pc' = "done"
            /\ UNCHANGED header
       ELSE /\ header' = parseHeader(data).header
            /\ pc' = "params"
            /\ UNCHANGED err
    /\ offset' = 0
    /\ parameters' = << >>
    /\ UNCHANGED << data, msgType, result, built, collector, clientVars >>

(* The sub-header at the cursor (read only when 12 bytes remain).          *)
ParamAt(body, off) ==
    [Parameter |-> Int32LE(Slice(body, off, off + 4)),
     Type      |-> Int32LE(Slice(body, off + 4, off + 8)),
     Length    |-> Int32LE(Slice(body, off + 8, off + 12))]

(* Fault variant of ParametersEnd: the loop also ends when as many         *)
(* parameters as the header declares have been decoded.                    *)
ParametersEndAtDeclaredCount ==
    /\ pc = "params"
    /\ (~(offset < Len(Body)) \/ Len(parameters) >= header.ParameterCount)
    /\ pc' = "dispatch"
    /\ UNCHANGED << data, msgType, header, offset, parameters, result, err, built, collector, clientVars >>

(* parseParameters, loop condition false: the cursor reached the end.      *)
ParametersEnd ==
    /\ pc = "params"
    /\ ~(offset < Len(Body))
    /\ pc' = "dispatch"
    /\ UNCHANGED << data, msgType, header, offset, parameters, result, err, built, collector, clientVars >>

(* Fault variant of ParametersNoHeader: the bytes left over are returned   *)
(* as an error.                                                            *)
ParametersNoHeaderFails ==
    /\ pc = "params"
    /\ offset < Len(Body)
    /\ offset + ParamHeaderSize > Len(Body)
    /\ err' = "failed to parse PCF parameters"
    /\ result' = Nil
    /\ pc' = "done"
    /\ UNCHANGED << data, msgType, header, offset, parameters, built, collector, clientVars >>

(* parseParameters: fewer than 12 bytes remain, break.                     *)
ParametersNoHeader ==
    /\ pc = "params"
    /\ offset < Len(Body)
    /\ offset + ParamHeaderSize > Len(Body)
    /\ pc' = "dispatch"
    /\ UNCHANGED << data, msgType, header, offset, parameters, result, err, built, collector, clientVars >>

(* Fault variant of ParametersInvalidLength: the invalid length is         *)
(* returned as an error, which ParseMessage passes on with a nil record.   *)
ParametersInvalidLengthFails ==
    /\ pc = "params"
    /\ offset < Len(Body)
    /\ offset + ParamHeaderSize <= Len(Body)
    /\ LET param == ParamAt(Body, offset)
       IN  param.Length < ParamHeaderSize \/ param.Length > MaxParamLength
    /\ err' = "failed to parse PCF parameters"
    /\ result' = Nil
    /\ pc' = "done"
    /\ UNCHANGED << data, msgType, header, offset, parameters, built, collector, clientVars >>

(* Fault variant of ParametersInvalidLength: the sub-header with the       *)
(* invalid length is stepped over and the loop goes on.                    *)
ParametersInvalidLengthSkips ==
    /\ pc = "params"
    /\ offset < Len(Body)
    /\ offset + ParamHeaderSize <= Len(Body)
    /\ LET param == ParamAt(Body, offset)
       IN  param.Length < ParamHeaderSize \/ param.Length > MaxParamLength
    /\ offset' = offset + ParamHeaderSize
    /\ UNCHANGED << data, msgType, pc, header, parameters, result, err, built, collector, clientVars >>

(* parseParameters: declared length below 12 or above 65536, break.        *)
ParametersInvalidLength ==
    /\ pc = "params"
    /\ offset < Len(Body)
    /\ offset + ParamHeaderSize <= Len(Body)
    /\ LET param == ParamAt(Body, offset)
       IN  param.Length < ParamHeaderSize \/ param.Length > MaxParamLength
    /\ pc' = "dispatch"
    /\ UNCHANGED << data, msgType, header, offset, parameters, result, err, built, collector, clientVars >>

(* Fault variant of ParametersBeyondData: the parameter that extends       *)
(* beyond the data is kept, without a value, before the loop is left.      *)
ParametersBeyondDataKept ==
    /\ pc = "params"
    /\ offset < Len(Body)
    /\ offset + ParamHeaderSize <= Len(Body)
    /\ LET param == ParamAt(Body, offset)
       IN  /\ ~(param.Length < ParamHeaderSize \/ param.Length > MaxParamLength)
           /\ offset + param.Length > Len(Body)
           /\ parameters' = Append(parameters,
                  [Parameter |-> param.Parameter,
                   Type      |-> param.Type,
                   Length    |-> param.Length,
                   Value     |-> NilValue])
    /\ pc' = "dispatch"
    /\ UNCHANGED << data, msgType, header, offset, result, err, built, collector, clientVars >>

(* parseParameters: the parameter extends beyond the data, break.          *)
ParametersBeyondData ==
    /\ pc = "params"
    /\ offset < Len(Body)
    /\ offset + ParamHeaderSize <= Len(Body)
    /\ LET param == ParamAt(Body, offset)
       IN  /\ ~(param.Length < ParamHeaderSize \/ param.Length > MaxParamLength)
           /\ offset + param.Length > Len(Body)
    /\ pc' = "dispatch"
    /\ UNCHANGED << data, msgType, header, offset, parameters, result, err, built, collector, clientVars >>

(* parseParameters: the parameter is accepted, its value resolved, the     *)
(* parameter appended and the cursor advanced and aligned.                 *)
ParametersAccept ==
    /\ pc = "params"
    /\ offset < Len(Body)
    /\ offset + ParamHeaderSize <= Len(Body)
    /\ LET param == ParamAt(Body, offset)
       IN  /\ ~(param.Length < ParamHeaderSize \/ param.Length > MaxParamLength)
           /\ ~(offset + param.Length > Len(Body))
           /\ parameters' = Append(parameters,
                  [Parameter |-> param.Parameter,
                   Type      |-> param.Type,
                   Length    |-> param.Length,
                   Value     |-> ParamValue(Body, offset, param.Type, param.Length)])
           /\ offset' = NextOffset(offset, param.Length)
    /\ UNCHANGED << data, msgType, pc, header, result, err, built, collector, clientVars >>

(* ParseMessage after parseParameters: the switch on the command code.     *)
DispatchStatistics ==
    /\ pc = "dispatch"
    /\ IsStatisticsCommand(header.Command)
    /\ result' = parseStatistics(header, parameters, ClockNow)
    /\ pc' = "done"
    /\ UNCHANGED << data, msgType, header, offset, parameters, err, built, collector, clientVars >>

(* Fault variant of DispatchAccounting: the accounting record is chosen    *)
(* by the message-type argument instead of the command code.               *)
DispatchAccountingByMsgType ==
    /\ pc = "dispatch"
    /\ msgType = "accounting"
    /\ result' = parseAccounting(header, parameters, ClockNow)
    /\ pc' = "done"
    /\ UNCHANGED << data, msgType, header, offset, parameters, err, built, collector, clientVars >>

DispatchAccounting ==
    /\ pc = "dispatch"
    /\ ~IsStatisticsCommand(header.Command)
    /\ IsAccountingCommand(header.Command)
    /\ result' = parseAccounting(header, parameters, ClockNow)
    /\ pc' = "done"
    /\ UNCHANGED << data, msgType, header, offset, parameters, err, built, collector, clientVars >>

DispatchDefault ==
    /\ pc = "dispatch"
    /\ ~IsStatisticsCommand(header.Command)
    /\ ~IsAccountingCommand(header.Command)
    /\ result' = GenericRecord(msgType, parameters, ClockNow)
    /\ pc' = "done"
    /\ UNCHANGED << data, msgType, header, offset, parameters, err, built, collector, clientVars >>

Next ==
    \/ ParseMessageTooShort
    \/ ParseMessageHeader
    \/ ParametersEnd
    \/ ParametersNoHeader
    \/ ParametersInvalidLength
    \/ ParametersBeyondData
    \/ ParametersAccept
    \/ DispatchStatistics
    \/ DispatchAccounting
    \/ DispatchDefault

Spec == Init /\ [][Next]_vars

----------------------------------------------------------------------------
(* The sub-record builders called on their own, on a parameter sequence    *)
(* that is given directly (tags repeated or missing, values of any kind).  *)

(* Largest length of a parameter sequence given to a builder.              *)
MaxBuildParams == 2

TestParameter(param, paramType, value) ==
    [Parameter |-> param, Type |-> paramType, Length |-> 0, Value |-> value]

(* Tags of the integer fields and of the text fields of the sub-records.   *)
IntTags ==
    { MQIA_CURRENT_Q_DEPTH, MQIA_HIGH_Q_DEPTH, MQIA_OPEN_INPUT_COUNT,
      MQIA_OPEN_OUTPUT_COUNT, MQIA_MSG_ENQ_COUNT, MQIA_MSG_DEQ_COUNT,
      MQIACH_MSGS, MQIACH_BYTES, MQIACH_BATCHES,
      MQIAMO_OPENS, MQIAMO_CLOSES, MQIAMO_PUTS, MQIAMO_GETS,
      MQIAMO_COMMITS, MQIAMO_BACKOUTS }

StrTags ==
    { MQCA_Q_NAME, MQCA_CHANNEL_NAME, MQCA_CONNECTION_NAME, MQCA_APPL_NAME }

BuildParams ==
    { TestParameter(t, MQCFT_INTEGER, IntValue(v)) : t \in IntTags, v \in {2, -1} }
    \cup { TestParameter(t, MQCFT_INTEGER, IntValue(0)) :
             t \in {MQIA_OPEN_INPUT_COUNT, MQIA_OPEN_OUTPUT_COUNT} }
    \cup { TestParameter(t, MQCFT_STRING, StrValue(TextA)) : t \in IntTags }
    \cup { TestParameter(t, MQCFT_STRING, StrValue(x)) :
             t \in StrTags, x \in {TextA, TextQ1} }
    \cup { TestParameter(t, MQCFT_INTEGER, IntValue(2)) : t \in StrTags }
    \cup { TestParameter(9999, MQCFT_INTEGER, IntValue(2)),
           TestParameter(MQIA_OPEN_INPUT_COUNT, MQCFT_BYTE_STRING,
                         BytesValue(<< 2, 0, 0, 0 >>)),
           TestParameter(MQCA_Q_NAME, MQCFT_INTEGER_LIST, NilValue) }

InitBuild ==
    /\ parameters \in SeqUpTo(MaxBuildParams, BuildParams)
    /\ pc = "build"
    /\ data = << >>
    /\ msgType = "statistics"
    /\ header = Nil
    /\ offset = 0
    /\ result = Nil
    /\ err = NoError
    /\ built = Nil
    /\ collector = Nil
    /\ NoClient

BuildQueueStats ==
    /\ pc = "build"
    /\ built' = [builder |-> "parseQueueStats", rec |-> parseQueueStats(parameters)]
    /\ pc' = "built"
    /\ UNCHANGED << data, msgType, header, offset, parameters, result, err, collector, clientVars >>

BuildChannelStats ==
    /\ pc = "build"
    /\ built' = [builder |-> "parseChannelStats", rec |-> parseChannelStats(parameters)]
    /\ pc' = "built"
    /\ UNCHANGED << data, msgType, header, offset, parameters, result, err, collector, clientVars >>

BuildMQIStats ==
    /\ pc = "build"
    /\ built' = [builder |-> "parseMQIStats", rec |-> parseMQIStats(parameters)]
    /\ pc' = "built"
    /\ UNCHANGED << data, msgType, header, offset, parameters, result, err, collector, clientVars >>

BuildConnectionInfo ==
    /\ pc = "build"
    /\ built' = [builder |-> "parseConnectionInfo", rec |-> parseConnectionInfo(parameters)]
    /\ pc' = "built"
    /\ UNCHANGED << data, msgType, header, offset, parameters, result, err, collector, clientVars >>

BuildOperationCounts ==
    /\ pc = "build"
    /\ built' = [builder |-> "parseOperationCounts", rec |-> parseOperationCounts(parameters)]
    /\ pc' = "built"
    /\ UNCHANGED << data, msgType, header, offset, parameters, result, err, collector, clientVars >>

NextBuild ==
    \/ BuildQueueStats
    \/ BuildChannelStats
    \/ BuildMQIStats
    \/ BuildConnectionInfo
    \/ BuildOperationCounts

SpecBuild == InitBuild /\ [][NextBuild]_vars

-----------------------------------------------------------------------------
(* processStatisticsMessage: the values the has-readers and has-writers    *)
(* gauges are set to for a queue statistics record.                        *)
queueReadersGauge(queueStats) == IF queueStats.HasReaders THEN 1 ELSE 0

queueWritersGauge(queueStats) == IF queueStats.HasWriters THEN 1 ELSE 0

----------------------------------------------------------------------------
(* Properties of ParseMessage (specification Spec).                        *)

(* C1: ParseMessage on a buffer of at least 36 bytes returns a non-nil     *)
(* record and no error, whatever the header, the message type and the      *)
(* parameter bytes are; only a buffer too short for the header gives an    *)
(* error.                                                                  *)
C1_FullBufferNeverFails ==
    /\ err # NoError => Len(data) < HeaderSize
    /\ pc = "done" /\ Len(data) >= HeaderSize => result # Nil /\ err = NoError

(* A call that returned a record although the decoding of the parameters   *)
(* stopped before the end of the buffer.                                   *)
C1_Witness ==
    /\ pc = "done"
    /\ Len(data) >= HeaderSize
    /\ offset + ParamHeaderSize <= Len(Body)
    /\ header.Command = -1
    /\ result # Nil
    /\ err = NoError

(* C2: ParseMessage on a buffer shorter than 36 bytes (nil, empty, 1..35   *)
(* bytes) returns an error and a nil record, and decodes no header and no  *)
(* parameter from it.                                                      *)
C2_ShortBufferFails ==
    Len(data) < HeaderSize =>
        /\ pc \in {"start", "done"}
        /\ header = Nil
        /\ parameters = << >>
        /\ result = Nil
        /\ pc = "done" => err # NoError

(* A call on a buffer of 35 bytes has returned.                            *)
C2_Witness ==
    /\ pc = "done"
    /\ Len(data) = HeaderSize - 1
    /\ err # NoError
    /\ result = Nil

(* The declared length of the parameter whose sub-header is at off.        *)
DeclaredLength(body, off) == Int32LE(Slice(body, off + 8, off + 12))

(* A full sub-header is at the cursor and its declared length is below 12, *)
(* above 65536 or extends past the end of the buffer.                      *)
BadLengthAt(body, off) ==
    /\ off + 12 <= Len(body)
    /\ \/ DeclaredLength(body, off) < 12
       \/ DeclaredLength(body, off) > 65536
       \/ off + DeclaredLength(body, off) > Len(body)

(* The keys of the raw parameter map of a parameter sequence.              *)
KeysOf(params) == { ParamKey(params[k].Parameter) : k \in 1..Len(params) }

(* C3: when the parameter at the cursor has a declared length below 12,    *)
(* above 65536 or extending past the end of the buffer, parseParameters    *)
(* stops there without error: its result is exactly the parameters decoded *)
(* before, in stream order; that parameter and all later ones are dropped  *)
(* (nothing is decoded after the stop, and the record is built from the    *)
(* parameters decoded before it).                                          *)
C3_StopsAtBadLength ==
    [][ /\ (pc = "params" /\ BadLengthAt(Body, offset)) =>
               /\ pc' = "dispatch"
               /\ parameters' = parameters
               /\ err' = NoError
        /\ pc = "dispatch" =>
               /\ pc' = "done"
               /\ parameters' = parameters
               /\ err' = NoError
               /\ result' # Nil
               /\ DOMAIN result'.Parameters = KeysOf(parameters)
      ]_vars

(* parseParameters stopped at a parameter with a bad length, after it had  *)
(* decoded a parameter and with a well-formed parameter left behind it.    *)
C3_Witness ==
    /\ pc = "dispatch"
    /\ BadLengthAt(Body, offset)
    /\ Len(parameters) >= 1
    /\ Len(Body) >= offset + 32
    /\ DeclaredLength(Body, offset + 16) = 16

(* C4: the record variant depends on the command code of the header only:  *)
(* a statistics command gives a StatisticsData of type "statistics", an    *)
(* accounting command an AccountingData of type "accounting" with a        *)
(* ConnectionInfo and an OperationCounts; the message-type argument does   *)
(* not change the variant.                                                 *)
C4_VariantByCommand ==
    pc = "done" /\ Len(data) >= HeaderSize =>
        /\ result # Nil
        /\ header.Command \in {MQCMD_STATISTICS_Q, MQCMD_STATISTICS_CHANNEL,
                               MQCMD_STATISTICS_MQI} =>
               /\ result.variant = "StatisticsData"
               /\ result.Type = "statistics"
        /\ header.Command \in {MQCMD_ACCOUNTING_Q, MQCMD_ACCOUNTING_MQI} =>
               /\ result.variant = "AccountingData"
               /\ result.Type = "accounting"
               /\ result.ConnectionInfo # Nil
               /\ result.Operations # Nil
        /\ header.Command \notin {MQCMD_ACCOUNTING_Q, MQCMD_ACCOUNTING_MQI} =>
               result.variant = "StatisticsData"

(* An accounting command decoded with the message type "statistics".       *)
C4_Witness ==
    /\ pc = "done"
    /\ header # Nil
    /\ header.Command = MQCMD_ACCOUNTING_MQI
    /\ msgType = "statistics"
    /\ result.variant = "AccountingData"
    /\ result.Operations # Nil

(* C5: for a command code that is none of the five known ones ParseMessage *)
(* returns, without error, a generic StatisticsData of type "statistics"   *)
(* with the raw parameter map and no sub-record, for every message type.   *)
C5_GenericIsStatistics ==
    (/\ pc = "done"
     /\ Len(data) >= HeaderSize
     /\ header.Command \notin {MQCMD_STATISTICS_Q, MQCMD_STATISTICS_CHANNEL,
                               MQCMD_STATISTICS_MQI, MQCMD_ACCOUNTING_Q,
                               MQCMD_ACCOUNTING_MQI}) =>
        /\ err = NoError
        /\ result # Nil
        /\ result.variant = "StatisticsData"
        /\ result.Type = "statistics"
        /\ DOMAIN result.Parameters = KeysOf(parameters)
        /\ result.QueueStats = Nil
        /\ result.ChannelStats = Nil
        /\ result.MQIStats = Nil

(* C6: a StatisticsData returned by ParseMessage carries the sub-record of *)
(* its command code and no other one: QueueStats, ChannelStats or MQIStats *)
(* for the three statistics commands, none for any other command.          *)
C6_OneSubRecord ==
    (pc = "done" /\ result # Nil /\ result.variant = "StatisticsData") =>
        /\ (result.QueueStats # Nil) = (header.Command = MQCMD_STATISTICS_Q)
        /\ (result.ChannelStats # Nil) =
               (header.Command = MQCMD_STATISTICS_CHANNEL)
        /\ (result.MQIStats # Nil) = (header.Command = MQCMD_STATISTICS_MQI)

(* A channel-statistics message was decoded.                               *)
C6_Witness ==
    /\ pc = "done"
    /\ header # Nil
    /\ header.Command = MQCMD_STATISTICS_CHANNEL
    /\ Len(parameters) >= 1
    /\ result.ChannelStats # Nil
    /\ result.QueueStats = Nil

C8_ReadersByHandlesOrOperations ==
    (/\ pc = "done"
     /\ result # Nil
     /\ result.variant = "StatisticsData"
     /\ result.QueueStats # Nil) =>
        /\ result.QueueStats.HasReaders =
               (result.QueueStats.InputCount > 0
                \/ result.QueueStats.DequeueCount > 0)
        /\ result.QueueStats.HasWriters =
               (result.QueueStats.OutputCount > 0
                \/ result.QueueStats.EnqueueCount > 0)
        /\ (queueReadersGauge(result.QueueStats) = 1) =
               (result.QueueStats.InputCount > 0
                \/ result.QueueStats.DequeueCount > 0)
        /\ (queueWritersGauge(result.QueueStats) = 1) =
               (result.QueueStats.OutputCount > 0
                \/ result.QueueStats.EnqueueCount > 0)

(* The fields of each sub-record with the tag and the value kind that set  *)
(* them.                                                                   *)
FieldsOf(builder) ==
    CASE builder = "parseQueueStats" ->
             { << "QueueName", MQCA_Q_NAME, "str" >>,
               << "CurrentDepth", MQIA_CURRENT_Q_DEPTH, "int" >>,
               << "HighDepth", MQIA_HIGH_Q_DEPTH, "int" >>,
               << "InputCount", MQIA_OPEN_INPUT_COUNT, "int" >>,
               << "OutputCount", MQIA_OPEN_OUTPUT_COUNT, "int" >>,
               << "EnqueueCount", MQIA_MSG_ENQ_COUNT, "int" >>,
               << "DequeueCount", MQIA_MSG_DEQ_COUNT, "int" >> }
      [] builder = "parseChannelStats" ->
             { << "ChannelName", MQCA_CHANNEL_NAME, "str" >>,
               << "ConnectionName", MQCA_CONNECTION_NAME, "str" >>,
               << "Messages", MQIACH_MSGS, "int" >>,
               << "Bytes", MQIACH_BYTES, "int" >>,
               << "Batches", MQIACH_BATCHES, "int" >> }
      [] builder = "parseMQIStats" ->
             { << "ApplicationName", MQCA_APPL_NAME, "str" >>,
               << "Opens", MQIAMO_OPENS, "int" >>,
               << "Closes", MQIAMO_CLOSES, "int" >>,
               << "Puts", MQIAMO_PUTS, "int" >>,
               << "Gets", MQIAMO_GETS, "int" >>,
               << "Commits", MQIAMO_COMMITS, "int" >>,
               << "Backouts", MQIAMO_BACKOUTS, "int" >> }
      [] builder = "parseConnectionInfo" ->
             { << "ChannelName", MQCA_CHANNEL_NAME, "str" >>,
               << "ConnectionName", MQCA_CONNECTION_NAME, "str" >>,
               << "ApplicationName", MQCA_APPL_NAME, "str" >> }
      [] builder = "parseOperationCounts" ->
             { << "Gets", MQIAMO_GETS, "int" >>,
               << "Puts", MQIAMO_PUTS, "int" >>,
               << "Opens", MQIAMO_OPENS, "int" >>,
               << "Closes", MQIAMO_CLOSES, "int" >>,
               << "Commits", MQIAMO_COMMITS, "int" >>,
               << "Backouts", MQIAMO_BACKOUTS, "int" >> }

(* The positions of the parameters with the given tag and value kind.      *)
Matching(params, tag, kind) ==
    { k \in 1..Len(params) :
          params[k].Parameter = tag /\ params[k].Value.kind = kind }

(* The value of the last matching parameter, zero or empty without one.    *)
LastValue(params, tag, kind) ==
    IF Matching(params, tag, kind) = {}
    THEN IF kind = "int" THEN 0 ELSE << >>
    ELSE LET last == CHOOSE k \in Matching(params, tag, kind) :
                         \A j \in Matching(params, tag, kind) : j <= k
         IN  IF kind = "int" THEN params[last].Value.i
                             ELSE params[last].Value.s

(* C9: each sub-record builder sets every field to the value of the last   *)
(* parameter whose tag is the field's tag and whose value has the field's  *)
(* kind: a repeated tag overwrites and is never summed, other parameters   *)
(* leave the field untouched, and a field without a matching parameter is  *)
(* zero or empty.                                                          *)
C9_LastWriteWins ==
    pc = "built" =>
        \A f \in FieldsOf(built.builder) :
            built.rec[f[1]] = LastValue(parameters, f[2], f[3])

(* parseOperationCounts built a record from two different GET counts.      *)
C9_Witness ==
    /\ pc = "built"
    /\ built.builder = "parseOperationCounts"
    /\ Len(parameters) = 2
    /\ parameters[1].Parameter = MQIAMO_GETS
    /\ parameters[1].Value = IntValue(2)
    /\ parameters[2].Parameter = MQIAMO_GETS
    /\ parameters[2].Value = IntValue(-1)
    /\ built.rec.Gets = -1

(* A well-formed parameter is at the cursor.                               *)
AcceptableAt(body, off) ==
    /\ off + 12 <= Len(body)
    /\ DeclaredLength(body, off) >= 12
    /\ DeclaredLength(body, off) <= 65536
    /\ off + DeclaredLength(body, off) <= Len(body)

(* The text s is the payload cut at its first NUL.                         *)
IsCutAtNul(s, payload) ==
    /\ Len(s) <= Len(payload)
    /\ s = SubSeq(payload, 1, Len(s))
    /\ \A k \in 1..Len(s) : s[k] # 0
    /\ Len(s) < Len(payload) => payload[Len(s) + 1] = 0

(* The value of a decoded parameter is the one its type tag and declared   *)
(* length give for the payload.                                            *)
ValueResolved(p, payload) ==
    CASE p.Type = 3 ->
             IF p.Length >= 16
             THEN /\ p.Value.kind = "int"
                  /\ PutInt32LE(p.Value.i) = SubSeq(payload, 1, 4)
             ELSE p.Value.kind = "nil"
      [] p.Type = 4 ->
             IF p.Length > 12
             THEN p.Value.kind = "str" /\ IsCutAtNul(p.Value.s, payload)
             ELSE p.Value.kind = "nil"
      [] p.Type = 9 ->
             IF p.Length > 12
             THEN p.Value.kind = "bytes" /\ p.Value.s = payload
             ELSE p.Value.kind = "nil"
      [] OTHER -> p.Value.kind = "nil"

-----------------------------------------------------------------------------
(* cleanString on its own (specification SpecText): data is the input      *)
(* string, result the string returned for it and built the string          *)
(* returned when the result is cleaned again.                              *)

MaxTextLen == 4

(* NUL, space, a letter and the first byte of a two-byte UTF-8 sequence.   *)
TextBytes == { 0, 32, 65, 195 }

InitText ==
    /\ data \in SeqUpTo(MaxTextLen, TextBytes)
    /\ pc = "clean"
    /\ msgType = "statistics"
    /\ header = Nil
    /\ offset = 0
    /\ parameters = << >>
    /\ result = Nil
    /\ err = NoError
    /\ built = Nil
    /\ collector = Nil
    /\ NoClient

CleanString ==
    /\ pc = "clean"
    /\ result' = cleanString(data)
    /\ pc' = "cleaned"
    /\ UNCHANGED << data, msgType, header, offset, parameters, err, built, collector, clientVars >>

CleanStringAgain ==
    /\ pc = "cleaned"
    /\ built' = cleanString(result)
    /\ pc' = "cleaned twice"
    /\ UNCHANGED << data, msgType, header, offset, parameters, result, err, collector, clientVars >>

NextText == CleanString \/ CleanStringAgain

SpecText == InitText /\ [][NextText]_vars

-----------------------------------------------------------------------------
(* The aggregate builders on their own (specification SpecTime): the       *)
(* parameters are given directly, result is the record built and built     *)
(* the value of time.Now() that the builder read.                          *)

MaxTimeParams == 2

(* Texts of a command-time parameter.                                      *)
TimeTexts ==
    { (* 2023-11-08 15:30:45.123: date, time and milliseconds (first format) *)
      << 50, 48, 50, 51, 45, 49, 49, 45, 48, 56, 32, 49, 53, 58, 51, 48, 58, 52, 53, 46, 49, 50, 51 >>,
      (* 2023-11-08 15:30:45: date and time (second format) *)
      << 50, 48, 50, 51, 45, 49, 49, 45, 48, 56, 32, 49, 53, 58, 51, 48, 58, 52, 53 >>,
      (* 20231108153045: compact (third format) *)
      << 50, 48, 50, 51, 49, 49, 48, 56, 49, 53, 51, 48, 52, 53 >>,
      (* 2023-11-08T15:30:45Z: ISO (fourth format) *)
      << 50, 48, 50, 51, 45, 49, 49, 45, 48, 56, 84, 49, 53, 58, 51, 48, 58, 52, 53, 90 >>,
      (* 2023-11-08T15:30:45.123Z: ISO with milliseconds (fifth format) *)
      << 50, 48, 50, 51, 45, 49, 49, 45, 48, 56, 84, 49, 53, 58, 51, 48, 58, 52, 53, 46, 49, 50, 51, 90 >>,
      (* 2023-11-08 15:30:45.1234: four fraction digits: second format only *)
      << 50, 48, 50, 51, 45, 49, 49, 45, 48, 56, 32, 49, 53, 58, 51, 48, 58, 52, 53, 46, 49, 50, 51, 52 >>,
      (* 2023-02-30 15:30:45: day out of range *)
      << 50, 48, 50, 51, 45, 48, 50, 45, 51, 48, 32, 49, 53, 58, 51, 48, 58, 52, 53 >>,
      (* 2023-11-08: date only *)
      << 50, 48, 50, 51, 45, 49, 49, 45, 48, 56 >>,
      (* in: no date at all *)
      << 105, 110 >>,
      << >> }

TimeParams ==
    { TestParameter(MQCACF_COMMAND_TIME, MQCFT_STRING, StrValue(t)) :
          t \in TimeTexts }
    \cup { TestParameter(MQCACF_COMMAND_TIME, MQCFT_INTEGER, IntValue(2023)),
           TestParameter(MQCACF_COMMAND_TIME, MQCFT_INTEGER_LIST, NilValue),
           TestParameter(MQCACF_COMMAND_TIME, MQCFT_BYTE_STRING,
                         BytesValue(TextTime)),
           TestParameter(MQCA_Q_MGR_NAME, MQCFT_STRING, StrValue(TextTime)) }

(* Values of time.Now().                                                   *)
Clocks == { ClockNow, << 2026, 11, 6, 10, 0, 1, 500000000 >> }

InitTime ==
    /\ parameters \in SeqUpTo(MaxTimeParams, TimeParams)
    /\ \E c \in { MQCMD_STATISTICS_Q, MQCMD_ACCOUNTING_MQI } :
           header = parseHeader(createTestPCFHeader(HeaderTypeOf(c), c,
                                                    Len(parameters))).header
    /\ pc = "dispatch"
    /\ data = << >>
    /\ msgType = "statistics"
    /\ offset = 0
    /\ result = Nil
    /\ err = NoError
    /\ built = Nil
    /\ collector = Nil
    /\ NoClient

BuildStatistics ==
    /\ pc = "dispatch"
    /\ IsStatisticsCommand(header.Command)
    /\ \E now \in Clocks :
           /\ built' = now
           /\ result' = parseStatistics(header, parameters, now)
    /\ pc' = "done"
    /\ UNCHANGED << data, msgType, header, offset, parameters, err, collector, clientVars >>

BuildAccounting ==
    /\ pc = "dispatch"
    /\ IsAccountingCommand(header.Command)
    /\ \E now \in Clocks :
           /\ built' = now
           /\ result' = parseAccounting(header, parameters, now)
    /\ pc' = "done"
    /\ UNCHANGED << data, msgType, header, offset, parameters, err, collector, clientVars >>

NextTime == BuildStatistics \/ BuildAccounting

SpecTime == InitTime /\ [][NextTime]_vars

(* The formats, by position in the list, that parse the text.              *)
MatchingFormats(text) ==
    { f \in 1..Len(TimestampFormats) : TimeParse(TimestampFormats[f], text).ok }

(* The time the first matching format gives for the text.                  *)
FirstMatchTime(text) ==
    TimeParse(TimestampFormats[CHOOSE f \in MatchingFormats(text) :
                                   \A g \in MatchingFormats(text) : f <= g],
              text).t

(* The positions of the command-time parameters whose value is a text      *)
(* that one of the formats parses.                                         *)
ParsedTimes(params) ==
    { k \in 1..Len(params) :
          /\ params[k].Parameter = MQCACF_COMMAND_TIME
          /\ params[k].Value.kind = "str"
          /\ MatchingFormats(params[k].Value.s) # {} }

(* The text is one of the texts for 8 November 2023, 15:30:45, with a      *)
(* date, a separator and a time of day.                                    *)
IsEighthOfNovember(text) ==
    /\ Len(text) >= 19
    /\ text[6] = Ascii.zero + 1
    /\ text[7] = Ascii.zero + 1

(* C12: the timestamp of a statistics or accounting record is the value    *)
(* that the first matching format gives for the command-time text (for the *)
(* last such parameter that parses, when the tag is repeated); when the    *)
(* parameter is absent, is not text or matches no format, the timestamp is *)
(* the clock value the builder read; no error is returned in any case.     *)
C12_TimestampOrClock ==
    (pc = "done" /\ data = << >>) =>
        /\ err = NoError
        /\ result # Nil
        /\ ParsedTimes(parameters) = {} => result.Timestamp = built
        /\ ParsedTimes(parameters) # {} =>
               result.Timestamp =
                   FirstMatchTime(
                       parameters[CHOOSE k \in ParsedTimes(parameters) :
                                      \A j \in ParsedTimes(parameters) : j <= k
                                 ].Value.s)
        /\ (Len(parameters) = 1 /\ parameters[1].Value.kind = "str"
            /\ parameters[1].Parameter = MQCACF_COMMAND_TIME
            /\ IsEighthOfNovember(parameters[1].Value.s)) =>
               /\ SubSeq(result.Timestamp, 1, 6) = << 2023, 11, 8, 15, 30, 45 >>
               /\ result.Timestamp[7] \in { 0, 123000000, 123400000 }

(* A record was built from a text that only the second format parses,      *)
(* with its fraction of a second.                                          *)
C12_Witness ==
    /\ pc = "done"
    /\ data = << >>
    /\ Len(parameters) = 1
    /\ parameters[1].Parameter = MQCACF_COMMAND_TIME
    /\ parameters[1].Value.kind = "str"
    /\ MatchingFormats(parameters[1].Value.s) = { 2 }
    /\ result.Timestamp = << 2023, 11, 8, 15, 30, 45, 123400000 >>
    /\ result.Timestamp # built

-----------------------------------------------------------------------------
(* Properties of the raw parameter map (specification Spec).               *)

(* The tags of a parameter sequence.                                       *)
TagsOf(params) == { params[k].Parameter : k \in 1..Len(params) }

(* The parameter at position k is the last one with its tag.               *)
IsLastOfTag(params, k) ==
    \A j \in (k + 1)..Len(params) : params[j].Parameter # params[k].Parameter

(* C13: the raw parameter map of every returned record has exactly one     *)
(* entry per distinct tag of the decoded parameters, also for a tag whose  *)
(* parameter has no value; the entry of a tag holds the value of the last  *)
(* parameter with that tag.                                                *)
C13_RawMapLastPerTag ==
    (pc = "done" /\ Len(data) >= HeaderSize) =>
        /\ result # Nil
        /\ Cardinality(DOMAIN result.Parameters) =
               Cardinality(TagsOf(parameters))
        /\ \A k \in 1..Len(parameters) :
               /\ ParamKey(parameters[k].Parameter) \in DOMAIN result.Parameters
               /\ IsLastOfTag(parameters, k) =>
                      result.Parameters[ParamKey(parameters[k].Parameter)] =
                          parameters[k].Value

(* A record was built from an integer parameter followed by a parameter    *)
(* of the same tag with an unrecognized type.                              *)
C13_Witness ==
    /\ pc = "done"
    /\ Len(parameters) = 2
    /\ parameters[1].Parameter = parameters[2].Parameter
    /\ parameters[1].Value = IntValue(2)
    /\ parameters[2].Type = MQCFT_INTEGER_LIST
    /\ parameters[2].Value = NilValue
    /\ DOMAIN result.Parameters = { ParamKey(parameters[2].Parameter) }
    /\ result.Parameters[ParamKey(parameters[2].Parameter)] = NilValue

-----------------------------------------------------------------------------
(* ParseMessage on messages whose declared parameter count is any number   *)
(* (specification SpecCount).                                              *)

MaxCountParams == 2

CountChunks ==
    { createTestIntParameter(MQIA_OPEN_INPUT_COUNT, 2),
      createTestPCFParameter(MQCA_Q_NAME, MQCFT_STRING, TextQ1),
      RawParameter(MQCA_Q_NAME, MQCFT_STRING, 15, << 81, 0, 88, 7 >>),
      RawParameter(MQIA_OPEN_INPUT_COUNT, MQCFT_INTEGER, 65537, << 2, 0, 0, 0 >>),
      RawParameter(MQIA_OPEN_INPUT_COUNT, MQCFT_INTEGER, 20, << 2, 0, 0, 0 >>),
      << 1, 2, 3, 4, 5 >> }

(* Declared parameter counts: none, some, more than present, negative.     *)
DeclaredCounts == { 0, 1, 2, 3, -1 }

CountMessages ==
    { createTestPCFHeader(HeaderTypeOf(c), c, n) \o Concat(chunks) :
        c \in { MQCMD_STATISTICS_Q, MQCMD_ACCOUNTING_MQI, 153 },
        n \in DeclaredCounts,
        chunks \in SeqUpTo(MaxCountParams, CountChunks) }

InitCount ==
    /\ data \in CountMessages \cup { Zeros(HeaderSize - 1) }
    /\ msgType \in MsgTypes
    /\ pc = "start"
    /\ header = Nil
    /\ offset = 0
    /\ parameters = << >>
    /\ result = Nil
    /\ err = NoError
    /\ built = Nil
    /\ collector = Nil
    /\ NoClient

SpecCount == InitCount /\ [][Next]_vars

(* The parameters that the bytes of body give from the cursor off on: a    *)
(* function of the bytes after the header only.                            *)
RECURSIVE DecodedFrom(_, _)
DecodedFrom(body, off) ==
    IF AcceptableAt(body, off)
    THEN << [Parameter |-> Int32LE(Slice(body, off, off + 4)),
             Type      |-> Int32LE(Slice(body, off + 4, off + 8)),
             Length    |-> DeclaredLength(body, off),
             Value     |-> ParamValue(body, off,
                                      Int32LE(Slice(body, off + 4, off + 8)),
                                      DeclaredLength(body, off))] >>
         \o DecodedFrom(body, ((off + DeclaredLength(body, off) + 3) \div 4) * 4)
    ELSE << >>

(* C14: the decoded parameter sequence is determined by the bytes after    *)
(* the header alone, whatever parameter count the header declares          *)
(* (smaller or larger than the number of parameters present), and the      *)
(* sub-records are determined by that sequence.                            *)
C14_DeclaredCountIgnored ==
    (pc \in {"dispatch", "done"} /\ Len(data) >= HeaderSize) =>
        /\ parameters = DecodedFrom(Body, 0)
        /\ pc = "done" =>
               /\ result # Nil
               /\ DOMAIN result.Parameters = KeysOf(DecodedFrom(Body, 0))
               /\ header.Command = MQCMD_STATISTICS_Q =>
                      result.QueueStats = parseQueueStats(DecodedFrom(Body, 0))
               /\ header.Command = MQCMD_ACCOUNTING_MQI =>
                      /\ result.ConnectionInfo =
                             parseConnectionInfo(DecodedFrom(Body, 0))
                      /\ result.Operations =
                             parseOperationCounts(DecodedFrom(Body, 0))

(* A message that declares no parameter and holds two was decoded.         *)
C14_Witness ==
    /\ pc = "done"
    /\ header # Nil
    /\ header.ParameterCount = 0
    /\ header.Command = MQCMD_STATISTICS_Q
    /\ Len(parameters) = 2
    /\ result.QueueStats.InputCount = 2
    /\ result.QueueStats.QueueName = TextQ1

-----------------------------------------------------------------------------
(* Properties of the cursor of parseParameters (specification Spec).       *)

(* The cursor at which the parameter at position k of the result was read, *)
(* if the first one is read at 0 and each next one at the end of the       *)
(* previous one rounded up to a multiple of 4; position Len + 1 gives the  *)
(* cursor after the last parameter.                                        *)
CursorOf(params, k) ==
    LET C[j \in 1..(Len(params) + 1)] ==
            IF j = 1
            THEN 0
            ELSE ((C[j - 1] + params[j - 1].Length + 3) \div 4) * 4
    IN  C[k]

(* C15: every accepted parameter with cursor c and declared length L is    *)
(* followed by a read at c + L rounded up to the next multiple of 4: the   *)
(* parameters of the result are the ones found at these cursors, their     *)
(* byte ranges [c, c + L) lie in the buffer, do not overlap and are in     *)
(* increasing order.                                                       *)
C15_CursorAdvancesAligned ==
    (pc \in {"params", "dispatch", "done"} /\ Len(data) >= HeaderSize) =>
        /\ offset = CursorOf(parameters, Len(parameters) + 1)
        /\ offset % 4 = 0
        /\ \A k \in 1..Len(parameters) :
               /\ parameters[k].Length >= 12
               /\ parameters[k].Length <= 65536
               /\ CursorOf(parameters, k) + parameters[k].Length <= Len(Body)
               /\ parameters[k].Parameter =
                      Int32LE(Slice(Body, CursorOf(parameters, k),
                                    CursorOf(parameters, k) + 4))
               /\ parameters[k].Length =
                      DeclaredLength(Body, CursorOf(parameters, k))
               /\ CursorOf(parameters, k) + parameters[k].Length
                      <= CursorOf(parameters, k + 1)
               /\ CursorOf(parameters, k + 1)
                      < CursorOf(parameters, k) + parameters[k].Length + 4

(* A parameter of 15 bytes at cursor 0 was followed by one read at 16.     *)
C15_Witness ==
    /\ pc = "dispatch"
    /\ Len(parameters) = 2
    /\ parameters[1].Length = 15
    /\ parameters[2].Length = 16
    /\ DeclaredLength(Body, 16) = 16
    /\ offset = 32

-----------------------------------------------------------------------------
(* parseHeader on its own (specification SpecHeader): built holds the nine *)
(* fields that were written, data the 36 bytes and header the fields that  *)
(* parseHeader returned.                                                   *)

(* Field values: zero, a number with four different bytes, a small         *)
(* negative number and the smallest 32-bit number.                         *)
HeaderValues == { 0, 16909060, -2, (-2147483647) - 1 }

(* The nine fields written as consecutive 4-byte integers, in the order of *)
(* the structure.                                                          *)
WriteHeader(h) ==
    Concat(<< PutInt32LE(h.Type), PutInt32LE(h.StrucLength),
              PutInt32LE(h.Version), PutInt32LE(h.Command),
              PutInt32LE(h.MsgSeqNumber), PutInt32LE(h.Control),
              PutInt32LE(h.CompCode), PutInt32LE(h.Reason),
              PutInt32LE(h.ParameterCount) >>)

InitHeader ==
    /\ built \in [Type : HeaderValues, StrucLength : HeaderValues,
                  Version : HeaderValues, Command : HeaderValues,
                  MsgSeqNumber : HeaderValues, Control : HeaderValues,
                  CompCode : HeaderValues, Reason : HeaderValues,
                  ParameterCount : HeaderValues]
    /\ data = WriteHeader(built)
    /\ pc = "start"
    /\ msgType = "statistics"
    /\ header = Nil
    /\ offset = 0
    /\ parameters = << >>
    /\ result = Nil
    /\ err = NoError
    /\ collector = Nil
    /\ NoClient

ParseHeader ==
    /\ pc = "start"
    /\ header' = parseHeader(data).header
    /\ err' = IF parseHeader(data).err THEN "data too short for PCF header"
                                       ELSE NoError
    /\ pc' = "header"
    /\ UNCHANGED << data, msgType, offset, parameters, result, built, collector, clientVars >>

NextHeader == ParseHeader

SpecHeader == InitHeader /\ [][NextHeader]_vars

(* The fields of a header in the order of the structure.                   *)
HeaderFields(h) ==
    << h.Type, h.StrucLength, h.Version, h.Command, h.MsgSeqNumber,
       h.Control, h.CompCode, h.Reason, h.ParameterCount >>

(* C16: the nine fields of a header, written as consecutive 4-byte         *)
(* integers in the decoder's byte order, are returned unchanged by         *)
(* parseHeader, negative values included; field number i is decoded from   *)
(* the four bytes at offset 4 * (i - 1), least significant byte first.     *)
C16_HeaderRoundTrip ==
    pc = "header" =>
        /\ err = NoError
        /\ header # Nil
        /\ header = built
        /\ \A i \in 1..9 :
               LET b == SubSeq(data, 4 * (i - 1) + 1, 4 * i)
                   n == HeaderFields(header)[i]
               IN  /\ b[1] = n % 256
                   /\ b[2] = (n \div 256) % 256
                   /\ b[3] = (n \div 65536) % 256
                   /\ b[4] = (n \div 16777216) % 256

(* A header with nine fields, not all equal, two of them negative, was     *)
(* decoded.                                                                *)
C16_Witness ==
    /\ pc = "header"
    /\ header # Nil
    /\ header.Type = 16909060
    /\ header.Command = -2
    /\ header.Reason = (-2147483647) - 1
    /\ header.ParameterCount = 0
    /\ SubSeq(data, 1, 4) = << 4, 3, 2, 1 >>
    /\ SubSeq(data, 13, 16) = << 254, 255, 255, 255 >>

-----------------------------------------------------------------------------
(* ParseMessage on the messages of the test fixtures (specification        *)
(* SpecFixtures): the little-endian ones and the ones that the second test *)
(* file of the parser writes in big-endian order.                          *)

(* binary.BigEndian.PutUint32(buf, uint32(n)) for an int32 n.              *)
PutInt32BE(n) ==
    << PutInt32LE(n)[4], PutInt32LE(n)[3], PutInt32LE(n)[2], PutInt32LE(n)[1] >>

createTestPCFHeaderBE(type, command, paramCount) ==
    Concat(<< PutInt32BE(type), PutInt32BE(36), PutInt32BE(1),
              PutInt32BE(command), PutInt32BE(1), PutInt32BE(0),
              PutInt32BE(0), PutInt32BE(0), PutInt32BE(paramCount) >>)

createTestPCFParameterBE(param, paramType, value) ==
    LET raw == 12 + Len(value)
        paramLen == IF raw % 4 # 0 THEN raw + (4 - (raw % 4)) ELSE raw
    IN  Concat(<< PutInt32BE(param), PutInt32BE(paramType),
                  PutInt32BE(paramLen), value, Zeros(paramLen - raw) >>)

(* "TEST.QUEUE", "TESTQM" and "TestApp".                                   *)
TextTestQueue == << 84, 69, 83, 84, 46, 81, 85, 69, 85, 69 >>
TextTestQm == << 84, 69, 83, 84, 81, 77 >>
TextTestApp == << 84, 101, 115, 116, 65, 112, 112 >>

createCompleteStatsMessageBE ==
    Concat(<< createTestPCFHeaderBE(MQCFT_STATISTICS, MQCMD_STATISTICS_Q, 3),
              createTestPCFParameterBE(MQCA_Q_NAME, MQCFT_STRING, TextTestQueue),
              Concat(<< PutInt32BE(MQIA_CURRENT_Q_DEPTH),
                        PutInt32BE(MQCFT_INTEGER), PutInt32BE(16),
                        PutInt32BE(100) >>),
              createTestPCFParameterBE(MQCA_Q_MGR_NAME, MQCFT_STRING,
                                       TextTestQm) >>)

createCompleteAccountingMessageBE ==
    Concat(<< createTestPCFHeaderBE(MQCFT_ACCOUNTING, MQCMD_ACCOUNTING_Q, 2),
              createTestPCFParameterBE(MQCA_APPL_NAME, MQCFT_STRING, TextTestApp),
              createTestPCFParameterBE(MQCA_Q_MGR_NAME, MQCFT_STRING,
                                       TextTestQm) >>)

(* The header fields that the big-endian fixtures write, with the bytes    *)
(* of the message.                                                         *)
BigEndianFixtures ==
    { [bytes   |-> createTestPCFHeaderBE(MQCFT_STATISTICS, MQCMD_STATISTICS_Q, 1),
       type    |-> MQCFT_STATISTICS,
       command |-> MQCMD_STATISTICS_Q,
       count   |-> 1],
      [bytes   |-> createCompleteStatsMessageBE,
       type    |-> MQCFT_STATISTICS,
       command |-> MQCMD_STATISTICS_Q,
       count   |-> 3],
      [bytes   |-> createCompleteAccountingMessageBE,
       type    |-> MQCFT_ACCOUNTING,
       command |-> MQCMD_ACCOUNTING_Q,
       count   |-> 2] }

InitFixtures ==
    /\ data \in CountMessages \cup { m.bytes : m \in BigEndianFixtures }
                    \cup { Zeros(20) }
    /\ msgType \in MsgTypes
    /\ pc = "start"
    /\ header = Nil
    /\ offset = 0
    /\ parameters = << >>
    /\ result = Nil
    /\ err = NoError
    /\ built = Nil
    /\ collector = Nil
    /\ NoClient

SpecFixtures == InitFixtures /\ [][Next]_vars

(* C17: a message whose integers the fixtures wrote in big-endian order    *)
(* decodes to the values written: the header has the type, the command and *)
(* the parameter count of the fixture, and the big-endian queue-statistics *)
(* message gives a StatisticsData with a QueueStats named "TEST.QUEUE".    *)
C17_BigEndianFixturesDecode ==
    /\ \A m \in BigEndianFixtures :
           (data = m.bytes /\ pc \in {"params", "dispatch", "done"}) =>
               /\ header # Nil
               /\ header.Type = m.type
               /\ header.Command = m.command
               /\ header.ParameterCount = m.count
    /\ (data = createCompleteStatsMessageBE /\ pc = "done") =>
           /\ err = NoError
           /\ result # Nil
           /\ result.variant = "StatisticsData"
           /\ result.QueueStats # Nil
           /\ result.QueueStats.QueueName = TextTestQueue

-----------------------------------------------------------------------------
(* ParseMessage followed by the caller writing to the buffer it passed     *)
(* (specification SpecReuse).  A byte-string value is the sub-slice        *)
(* data[offset+12 : offset+Length] of the buffer, not a copy: it shares    *)
(* the bytes of the buffer, so that what it holds is what the buffer holds *)
(* at its positions.                                                       *)

ReuseChunks ==
    CountChunks
    \cup { RawParameter(7000, MQCFT_BYTE_STRING, 16, << 1, 2, 3, 4 >>),
           RawParameter(MQCA_Q_NAME, MQCFT_BYTE_STRING, 14, << 0, 9, 0, 0 >>) }

ReuseMessages ==
    { createTestPCFHeader(HeaderTypeOf(c), c, Len(chunks)) \o Concat(chunks) :
        c \in { MQCMD_STATISTICS_Q, MQCMD_ACCOUNTING_MQI, 153 },
        chunks \in SeqUpTo(MaxCountParams, ReuseChunks) }

InitReuse ==
    /\ data \in ReuseMessages \cup { Zeros(20) }
    /\ msgType \in MsgTypes
    /\ pc = "start"
    /\ header = Nil
    /\ offset = 0
    /\ parameters = << >>
    /\ result = Nil
    /\ err = NoError
    /\ built = Nil
    /\ collector = Nil
    /\ NoClient

(* The value of the parameter at position k of params when the buffer      *)
(* holds buf: a byte string holds the bytes of the buffer at its           *)
(* positions, every other value is its own.                                *)
SharedValue(params, k, buf) ==
    IF params[k].Value.kind = "bytes"
    THEN BytesValue(Slice(buf,
                          HeaderSize + CursorOf(params, k) + 12,
                          HeaderSize + CursorOf(params, k) + params[k].Length))
    ELSE params[k].Value

(* The raw parameter map when the buffer holds buf.                        *)
SharedParameters(params, buf) ==
    convertParameters([k \in 1..Len(params) |->
                          [params[k] EXCEPT !.Value = SharedValue(params, k, buf)]])

(* The caller fills the buffer it passed to ParseMessage with other bytes  *)
(* after the call returned.  The local variables of the finished call are  *)
(* no longer reachable and are left as they were.                          *)
OverwriteBuffer ==
    /\ pc = "done"
    /\ \E fill \in { 0, 170 } : data' = [k \in 1..Len(data) |-> fill]
    /\ result' = IF result = Nil
                 THEN Nil
                 ELSE [result EXCEPT
                           !.Parameters = SharedParameters(parameters, data')]
    /\ pc' = "reused"
    /\ UNCHANGED << msgType, header, offset, parameters, err, built, collector, clientVars >>

NextReuse == Next \/ OverwriteBuffer

SpecReuse == InitReuse /\ [][NextReuse]_vars

(* C18: ParseMessage does not modify its input buffer, and a change of the *)
(* buffer after ParseMessage returned changes no value of the returned     *)
(* record, byte-string values of the raw parameter map included.           *)
C18_RecordIndependentOfBuffer ==
    [][ /\ pc # "done" => data' = data
        /\ pc = "done" => result' = result
      ]_vars


----------------------------------------------------------------------------
(* One collection cycle: the messages of the two queues are retrieved,     *)
(* every message is decoded by ParseMessage as one call, and the gauges    *)
(* are updated from the decoded records.                                   *)

(* parseParameters as one call: the loop of the actions ParametersEnd ..   *)
(* ParametersAccept, from the cursor off to the end of the loop.           *)
RECURSIVE parseParametersFrom(_, _)
parseParametersFrom(body, off) ==
    IF ~(off < Len(body)) THEN << >>
    ELSE IF off + ParamHeaderSize > Len(body) THEN << >>
    ELSE IF ParamAt(body, off).Length < ParamHeaderSize
            \/ ParamAt(body, off).Length > MaxParamLength THEN << >>
    ELSE IF off + ParamAt(body, off).Length > Len(body) THEN << >>
    ELSE << [Parameter |-> ParamAt(body, off).Parameter,
             Type      |-> ParamAt(body, off).Type,
             Length    |-> ParamAt(body, off).Length,
             Value     |-> ParamValue(body, off, ParamAt(body, off).Type,
                                      ParamAt(body, off).Length)] >>
         \o parseParametersFrom(body, NextOffset(off, ParamAt(body, off).Length))

parseParameters(body) == parseParametersFrom(body, 0)

(* The record ParseMessage builds from a buffer long enough for a header.  *)
Dispatch(h, params, type, now) ==
    IF IsStatisticsCommand(h.Command) THEN parseStatistics(h, params, now)
    ELSE IF IsAccountingCommand(h.Command) THEN parseAccounting(h, params, now)
    ELSE GenericRecord(type, params, now)

ParsedRecord(buf, type, now) ==
    Dispatch(parseHeader(buf).header,
             parseParameters(Slice(buf, HeaderSize, Len(buf))), type, now)

(* ParseMessage as one call: the error and the record it returns.          *)
ParseMessage(buf, type, now) ==
    IF Len(buf) < HeaderSize
    THEN [err |-> "message too short to be a valid PCF message", data |-> Nil]
    ELSE [err |-> NoError, data |-> ParsedRecord(buf, type, now)]

(* The stepwise decoder and the one-call decoder agree on every buffer.    *)
ParseMessageAgrees ==
    pc = "done" =>
        /\ ParseMessage(data, msgType, ClockNow).err = err
        /\ ParseMessage(data, msgType, ClockNow).data = result


(* The configuration of the collector: queue manager, channel, and the     *)
(* version label of the collection-info gauge.                             *)
ConfigQueueManager == << 81, 77, 49 >>
ConfigChannel == << 67, 72 >>
CollectorVersion == << 49, 46, 48, 46, 48 >>

(* A gauge vector entry is addressed by the gauge and its label values.    *)
(* Set overwrites the value of the entry, Add adds to it (an entry that    *)
(* does not exist yet starts at 0).                                        *)
SetGauge(gauges, name, labels, v) ==
    [k \in DOMAIN gauges \cup {<< name, labels >>} |->
        IF k = << name, labels >> THEN v ELSE gauges[k]]

AddGauge(gauges, name, labels, v) ==
    [k \in DOMAIN gauges \cup {<< name, labels >>} |->
        IF k # << name, labels >> THEN gauges[k]
        ELSE IF k \in DOMAIN gauges THEN gauges[k] + v ELSE v]

SetAll(gauges, labels, pairs) ==
    FoldLeft(LAMBDA g, p : SetGauge(g, p[1], labels, p[2]), gauges, pairs)

AddAll(gauges, labels, pairs) ==
    FoldLeft(LAMBDA g, p : AddGauge(g, p[1], labels, p[2]), gauges, pairs)

(* qmgr := stats.QueueManager, the configured name when it is empty.       *)
QmgrOf(rec) ==
    IF rec.QueueManager = << >> THEN ConfigQueueManager ELSE rec.QueueManager

(* processStatisticsMessage: the three gauge groups of a statistics record *)
UpdateQueueGauges(gauges, stats) ==
    IF stats.QueueStats = Nil THEN gauges
    ELSE SetAll(gauges, << QmgrOf(stats), stats.QueueStats.QueueName >>,
                << << "queueDepthGauge", stats.QueueStats.CurrentDepth >>,
                   << "queueHighDepthGauge", stats.QueueStats.HighDepth >>,
                   << "queueEnqueueGauge", stats.QueueStats.EnqueueCount >>,
                   << "queueDequeueGauge", stats.QueueStats.DequeueCount >>,
                   << "queueInputCountGauge", stats.QueueStats.InputCount >>,
                   << "queueOutputCountGauge", stats.QueueStats.OutputCount >>,
                   << "queueReadersGauge", queueReadersGauge(stats.QueueStats) >>,
                   << "queueWritersGauge", queueWritersGauge(stats.QueueStats) >> >>)

UpdateChannelGauges(gauges, stats) ==
    IF stats.ChannelStats = Nil THEN gauges
    ELSE SetAll(gauges, << QmgrOf(stats), stats.ChannelStats.ChannelName,
                           stats.ChannelStats.ConnectionName >>,
                << << "channelMessagesGauge", stats.ChannelStats.Messages >>,
                   << "channelBytesGauge", stats.ChannelStats.Bytes >>,
                   << "channelBatchesGauge", stats.ChannelStats.Batches >> >>)

MQIPairs(counts) ==
    << << "mqiOpensGauge", counts.Opens >>,
       << "mqiClosesGauge", counts.Closes >>,
       << "mqiPutsGauge", counts.Puts >>,
       << "mqiGetsGauge", counts.Gets >>,
       << "mqiCommitsGauge", counts.Commits >>,
       << "mqiBackoutsGauge", counts.Backouts >> >>

UpdateMQIGauges(gauges, stats) ==
    IF stats.MQIStats = Nil THEN gauges
    ELSE SetAll(gauges, << QmgrOf(stats), stats.MQIStats.ApplicationName >>,
                MQIPairs(stats.MQIStats))

(* processAccountingMessage: the operation counts are added to the MQI     *)
(* gauges of the application of the connection.                            *)
AppNameOf(acct) ==
    IF acct.ConnectionInfo = Nil THEN << >>
    ELSE acct.ConnectionInfo.ApplicationName

UpdateOperationGauges(gauges, acct) ==
    IF acct.Operations = Nil THEN gauges
    ELSE AddAll(gauges, << QmgrOf(acct), AppNameOf(acct) >>,
                MQIPairs(acct.Operations))


(* processStatisticsMessage: the collector after one statistics message.   *)
UpdateStatisticsGauges(gauges, stats) ==
    UpdateMQIGauges(UpdateChannelGauges(UpdateQueueGauges(gauges, stats), stats),
                    stats)

processStatisticsMessage(c, msg, now) ==
    LET parsed == ParseMessage(msg, "statistics", now)
    IN  IF parsed.err # NoError
        THEN [c EXCEPT !.log = Append(@, "Failed to parse statistics message")]
        ELSE IF parsed.data.variant # "StatisticsData"
        THEN [c EXCEPT !.log = Append(@, "Invalid statistics data type")]
        ELSE [c EXCEPT !.gauges = UpdateStatisticsGauges(@, parsed.data)]

(* processAccountingMessage: the collector after one accounting message.   *)
processAccountingMessage(c, msg, now) ==
    LET parsed == ParseMessage(msg, "accounting", now)
    IN  IF parsed.err # NoError
        THEN [c EXCEPT !.log = Append(@, "Failed to parse accounting message")]
        ELSE IF parsed.data.variant # "AccountingData"
        THEN [c EXCEPT !.log = Append(@, "Invalid accounting data type")]
        ELSE [c EXCEPT !.gauges = UpdateOperationGauges(@, parsed.data)]

(* processStatsMessageForOTel: the records handed to the OTel provider,    *)
(* or the error returned to collectForOTel, which logs it.                 *)
QueueRecords(stats) ==
    IF stats.QueueStats = Nil THEN << >>
    ELSE << << "RecordQueueMetrics", QmgrOf(stats), stats.QueueStats.QueueName,
               stats.QueueStats.CurrentDepth, stats.QueueStats.EnqueueCount,
               stats.QueueStats.DequeueCount >> >>

ChannelRecords(stats) ==
    IF stats.ChannelStats = Nil THEN << >>
    ELSE << << "RecordChannelMetrics", QmgrOf(stats),
               stats.ChannelStats.ChannelName,
               stats.ChannelStats.ConnectionName,
               stats.ChannelStats.Messages, stats.ChannelStats.Bytes >> >>

MQIRecords(qmgr, appName, counts) ==
    << << "RecordMQIMetrics", qmgr, appName, "opens", counts.Opens >>,
       << "RecordMQIMetrics", qmgr, appName, "closes", counts.Closes >>,
       << "RecordMQIMetrics", qmgr, appName, "puts", counts.Puts >>,
       << "RecordMQIMetrics", qmgr, appName, "gets", counts.Gets >>,
       << "RecordMQIMetrics", qmgr, appName, "commits", counts.Commits >>,
       << "RecordMQIMetrics", qmgr, appName, "backouts", counts.Backouts >> >>

StatsRecords(stats) ==
    QueueRecords(stats) \o ChannelRecords(stats)
    \o (IF stats.MQIStats = Nil THEN << >>
        ELSE MQIRecords(QmgrOf(stats), stats.MQIStats.ApplicationName,
                        stats.MQIStats))

OperationRecords(acct) ==
    IF acct.Operations = Nil THEN << >>
    ELSE MQIRecords(QmgrOf(acct), AppNameOf(acct), acct.Operations)

processStatsMessageForOTel(c, msg) ==
    LET parsed == ParseMessage(msg, "statistics", ClockNow)
    IN  IF parsed.err # NoError
        THEN [c EXCEPT !.log =
                  Append(@, "Failed to process stats message for OTel")]
        ELSE IF parsed.data.variant # "StatisticsData"
        THEN [c EXCEPT !.log =
                  Append(@, "Failed to process stats message for OTel")]
        ELSE [c EXCEPT !.otelRecords = @ \o StatsRecords(parsed.data)]

processAccountingMessageForOTel(c, msg) ==
    LET parsed == ParseMessage(msg, "accounting", ClockNow)
    IN  IF parsed.err # NoError
        THEN [c EXCEPT !.log =
                  Append(@, "Failed to process accounting message for OTel")]
        ELSE IF parsed.data.variant # "AccountingData"
        THEN [c EXCEPT !.log =
                  Append(@, "Failed to process accounting message for OTel")]
        ELSE [c EXCEPT !.otelRecords = @ \o OperationRecords(parsed.data)]

(* collectForOTel: both queues are read again; a failing read is returned  *)
(* (collectMetrics logs it); otherwise the totals grow by the number of    *)
(* messages read and every message is handed to its OTel processor.        *)
collectForOTel(c) ==
    IF c.otel.fails # "none"
    THEN [c EXCEPT !.log = Append(@, "OTel collection failed")]
    ELSE FoldLeft(processAccountingMessageForOTel,
                  FoldLeft(processStatsMessageForOTel,
                           [c EXCEPT !.totalStatsMessages = @ + Len(c.otel.stats),
                                     !.totalAccountingMessages =
                                         @ + Len(c.otel.accounting)],
                           c.otel.stats),
                  c.otel.accounting)


(* The longest batch a queue hands over in one cycle.                      *)
MaxBatch == 2

(* Messages on the queues: a buffer too short for a header, a queue        *)
(* statistics message, an MQI accounting message, and a message of an      *)
(* unknown command.                                                        *)
ShortMessage == Zeros(20)

QueueMessage ==
    createTestPCFHeader(MQCFT_STATISTICS, MQCMD_STATISTICS_Q, 2)
    \o createTestPCFParameter(MQCA_Q_NAME, MQCFT_STRING, TextQ1)
    \o createTestIntParameter(MQIA_CURRENT_Q_DEPTH, 7)

AccountingMessage ==
    createTestPCFHeader(MQCFT_ACCOUNTING, MQCMD_ACCOUNTING_MQI, 2)
    \o createTestPCFParameter(MQCA_APPL_NAME, MQCFT_STRING, TextA)
    \o createTestIntParameter(MQIAMO_GETS, 2)

UnknownMessage == createTestPCFHeader(MQCFT_STATISTICS, 153, 0)

CollectMessages ==
    {ShortMessage, QueueMessage, AccountingMessage, UnknownMessage}

(* The OTel provider: absent, or present with what the second read of the  *)
(* two queues answers.                                                     *)
OTelOptions ==
    {Nil,
     [fails |-> "none", stats |-> << ShortMessage, QueueMessage >>,
      accounting |-> << UnknownMessage, AccountingMessage >>],
     [fails |-> "stats", stats |-> << >>, accounting |-> << >>],
     [fails |-> "accounting", stats |-> << QueueMessage >>,
      accounting |-> << >>]}

InitCollect ==
    /\ data = << >>
    /\ msgType = "statistics"
    /\ pc = "collect"
    /\ header = Nil
    /\ offset = 0
    /\ parameters = << >>
    /\ result = Nil
    /\ err = NoError
    /\ built = Nil
    /\ NoClient
    /\ \E sq \in SeqUpTo(MaxBatch, CollectMessages),
          aq \in SeqUpTo(MaxBatch, CollectMessages),
          fails \in {"none", "stats", "accounting"},
          otel \in OTelOptions :
          /\ fails # "none" => otel = Nil
          /\ collector = [statsQueue              |-> sq,
                          accountingQueue         |-> aq,
                          getFails                |-> fails,
                          otel                    |-> otel,
                          statsMessages           |-> << >>,
                          accountingMessages      |-> << >>,
                          index                   |-> 0,
                          gauges                  |-> << >>,
                          otelRecords             |-> << >>,
                          log                     |-> << >>,
                          errorCount              |-> 0,
                          totalCollections        |-> 0,
                          totalStatsMessages      |-> 0,
                          totalAccountingMessages |-> 0]

(* runOnce -> collectMetrics -> CollectMetrics, a read of a queue fails:   *)
(* CollectMetrics logs and returns the error, collectMetrics wraps it and  *)
(* runOnce counts it and returns it.                                       *)
CollectMessagesFail ==
    /\ pc = "collect"
    /\ collector.getFails # "none"
    /\ collector' =
           [collector EXCEPT
               !.log = Append(@, IF collector.getFails = "stats"
                                 THEN "Failed to collect statistics messages"
                                 ELSE "Failed to collect accounting messages"),
               !.errorCount = @ + 1]
    /\ err' = "collection failed"
    /\ pc' = "stopped"
    /\ UNCHANGED << data, msgType, header, offset, parameters, result, built, clientVars >>

(* CollectMetrics, both reads succeed: the two batches are held and        *)
(* updateMetricsFromMessages starts with the first statistics message.     *)
CollectMessagesOk ==
    /\ pc = "collect"
    /\ collector.getFails = "none"
    /\ collector' = [collector EXCEPT !.statsMessages = collector.statsQueue,
                                      !.accountingMessages = collector.accountingQueue,
                                      !.index = 1]
    /\ pc' = "statistics"
    /\ UNCHANGED << data, msgType, header, offset, parameters, result, err, built, clientVars >>

(* Fault variant of ProcessStatisticsMessage: a message that fails to      *)
(* decode ends the first loop.                                             *)
ProcessStatisticsMessageStopsBatch ==
    /\ pc = "statistics"
    /\ collector.index <= Len(collector.statsMessages)
    /\ collector' =
           [processStatisticsMessage(collector,
                                     collector.statsMessages[collector.index],
                                     ClockNow)
               EXCEPT !.index =
                   IF Len(collector.statsMessages[collector.index]) < HeaderSize
                   THEN Len(collector.statsMessages) + 1
                   ELSE @ + 1]
    /\ UNCHANGED << data, msgType, pc, header, offset, parameters, result, err, built, clientVars >>

(* updateMetricsFromMessages, one turn of the first loop.                  *)
ProcessStatisticsMessage ==
    /\ pc = "statistics"
    /\ collector.index <= Len(collector.statsMessages)
    /\ collector' =
           [processStatisticsMessage(collector,
                                     collector.statsMessages[collector.index],
                                     ClockNow)
               EXCEPT !.index = @ + 1]
    /\ UNCHANGED << data, msgType, pc, header, offset, parameters, result, err, built, clientVars >>

(* updateMetricsFromMessages, the first loop is over.                      *)
StatisticsProcessed ==
    /\ pc = "statistics"
    /\ collector.index > Len(collector.statsMessages)
    /\ collector' = [collector EXCEPT !.index = 1]
    /\ pc' = "accounting"
    /\ UNCHANGED << data, msgType, header, offset, parameters, result, err, built, clientVars >>

(* updateMetricsFromMessages, one turn of the second loop.                 *)
ProcessAccountingMessage ==
    /\ pc = "accounting"
    /\ collector.index <= Len(collector.accountingMessages)
    /\ collector' =
           [processAccountingMessage(collector,
                                     collector.accountingMessages[collector.index],
                                     ClockNow)
               EXCEPT !.index = @ + 1]
    /\ UNCHANGED << data, msgType, pc, header, offset, parameters, result, err, built, clientVars >>

(* The gauges CollectMetrics sets once both loops are over.                *)
CollectionGauges(gauges, now) ==
    SetGauge(SetGauge(gauges, "collectionInfoGauge",
                      << ConfigQueueManager, ConfigChannel, CollectorVersion >>, 1),
             "lastCollectionTime", << ConfigQueueManager >>, now)

(* The second loop is over and no OTel provider is configured:             *)
(* CollectMetrics returns nil, collectMetrics counts the collection and    *)
(* runOnce returns nil.                                                    *)
CollectMetricsDone ==
    /\ pc = "accounting"
    /\ collector.index > Len(collector.accountingMessages)
    /\ collector.otel = Nil
    /\ collector' = [collector EXCEPT
                        !.gauges = CollectionGauges(@, ClockNow),
                        !.totalCollections = @ + 1]
    /\ err' = NoError
    /\ pc' = "stopped"
    /\ UNCHANGED << data, msgType, header, offset, parameters, result, built, clientVars >>

(* The same with an OTel provider: collectForOTel runs before the          *)
(* collection is counted; its error is logged, never returned.             *)
CollectMetricsDoneOTel ==
    /\ pc = "accounting"
    /\ collector.index > Len(collector.accountingMessages)
    /\ collector.otel # Nil
    /\ collector' =
           [collectForOTel([collector EXCEPT
                               !.gauges = CollectionGauges(@, ClockNow)])
               EXCEPT !.totalCollections = @ + 1]
    /\ err' = NoError
    /\ pc' = "stopped"
    /\ UNCHANGED << data, msgType, header, offset, parameters, result, built, clientVars >>

NextCollect ==
    \/ CollectMessagesFail
    \/ CollectMessagesOk
    \/ ProcessStatisticsMessage
    \/ StatisticsProcessed
    \/ ProcessAccountingMessage
    \/ CollectMetricsDone
    \/ CollectMetricsDoneOTel

SpecCollect == InitCollect /\ [][NextCollect]_vars


----------------------------------------------------------------------------
(* What a batch must leave in the gauges, stated from the messages.        *)

(* What ParseMessage answers for each message of a batch.                  *)
Decoded(msgs, type) ==
    FoldLeft(LAMBDA acc, msg : Append(acc, ParseMessage(msg, type, ClockNow)),
             << >>, msgs)

(* The message decoded, and to the record variant its queue expects.       *)
DecodedTo(parsed, variant) ==
    /\ parsed.err = NoError
    /\ parsed.data.variant = variant

HasQueueStats(parsed) ==
    /\ DecodedTo(parsed, "StatisticsData")
    /\ parsed.data.QueueStats # Nil

QueueLabels(parsed) ==
    << QmgrOf(parsed.data), parsed.data.QueueStats.QueueName >>

HasMQIStats(parsed) ==
    /\ DecodedTo(parsed, "StatisticsData")
    /\ parsed.data.MQIStats # Nil

MQILabels(parsed) ==
    << QmgrOf(parsed.data), parsed.data.MQIStats.ApplicationName >>

HasOperations(parsed) ==
    /\ DecodedTo(parsed, "AccountingData")
    /\ parsed.data.Operations # Nil

OperationLabels(parsed) == << QmgrOf(parsed.data), AppNameOf(parsed.data) >>

(* The gets of all accounting messages of the batch under these labels.    *)
RECURSIVE SumOfGets(_, _)
SumOfGets(acct, labels) ==
    IF acct = << >> THEN 0
    ELSE (IF HasOperations(Head(acct)) /\ OperationLabels(Head(acct)) = labels
          THEN Head(acct).data.Operations.Gets
          ELSE 0)
         + SumOfGets(Tail(acct), labels)

(* The entries the two loops of updateMetricsFromMessages write to the log *)
SkipEntries ==
    {"Failed to parse statistics message", "Invalid statistics data type",
     "Failed to parse accounting message", "Invalid accounting data type"}

Skipped(stats, acct) ==
    Cardinality({k \in DOMAIN stats : ~DecodedTo(stats[k], "StatisticsData")})
    + Cardinality({k \in DOMAIN acct : ~DecodedTo(acct[k], "AccountingData")})

(* The last queue statistics message of each queue has set its depth gauge *)
DepthGaugesSet(gauges, stats) ==
    \A k \in DOMAIN stats :
        (/\ HasQueueStats(stats[k])
         /\ \A j \in DOMAIN stats :
               (j > k /\ HasQueueStats(stats[j]))
                   => QueueLabels(stats[j]) # QueueLabels(stats[k]))
        => /\ << "queueDepthGauge", QueueLabels(stats[k]) >> \in DOMAIN gauges
           /\ gauges[<< "queueDepthGauge", QueueLabels(stats[k]) >>]
                  = stats[k].data.QueueStats.CurrentDepth

(* The gets gauge of an application that no MQI statistics message of the  *)
(* batch names holds the sum over the accounting messages.                 *)
GetsGaugesSummed(gauges, stats, acct) ==
    \A k \in DOMAIN acct :
        (/\ HasOperations(acct[k])
         /\ \A j \in DOMAIN stats :
               HasMQIStats(stats[j])
                   => MQILabels(stats[j]) # OperationLabels(acct[k]))
        => /\ << "mqiGetsGauge", OperationLabels(acct[k]) >> \in DOMAIN gauges
           /\ gauges[<< "mqiGetsGauge", OperationLabels(acct[k]) >>]
                  = SumOfGets(acct, OperationLabels(acct[k]))

(* C19: a message of a batch that fails to decode, or decodes to the other *)
(* record variant, is skipped and does not stop the batch: when the cycle  *)
(* is over, every queue statistics message that decodes has set the depth  *)
(* gauge of its queue (the last one of a queue wins), the gets gauge of an *)
(* application holds the sum of all accounting messages that decode, each  *)
(* skipped message has one log entry, and the cycle returns no error and   *)
(* is counted as a collection, not as an error.                            *)
C19_BatchContinuesAfterSkip ==
    (pc = "stopped" /\ collector.getFails = "none") =>
        /\ err = NoError
        /\ collector.errorCount = 0
        /\ collector.totalCollections = 1
        /\ DepthGaugesSet(collector.gauges,
                          Decoded(collector.statsMessages, "statistics"))
        /\ GetsGaugesSummed(collector.gauges,
                            Decoded(collector.statsMessages, "statistics"),
                            Decoded(collector.accountingMessages, "accounting"))
        /\ Cardinality({k \in DOMAIN collector.log :
                           collector.log[k] \in SkipEntries})
               = Skipped(Decoded(collector.statsMessages, "statistics"),
                         Decoded(collector.accountingMessages, "accounting"))

(* A cycle is over whose statistics batch had a short buffer before a      *)
(* queue statistics message and whose accounting batch had a message of    *)
(* the other variant before an accounting message: both later messages     *)
(* reached the gauges.                                                     *)
C19_Witness ==
    /\ pc = "stopped"
    /\ err = NoError
    /\ collector.statsMessages = << ShortMessage, QueueMessage >>
    /\ collector.accountingMessages = << UnknownMessage, AccountingMessage >>
    /\ collector.gauges[<< "queueDepthGauge", << ConfigQueueManager, TextQ1 >> >>] = 7
    /\ collector.gauges[<< "mqiGetsGauge", << ConfigQueueManager, TextA >> >>] = 2
    /\ collector.log = << "Failed to parse statistics message",
                          "Invalid accounting data type" >>


(* A turn of one of the two loops on a buffer too short for a header: the  *)
(* decoder answers with an error, no gauge changes and the failure is      *)
(* logged.                                                                 *)
ShortMessageDroppedAndLogged ==
    /\ (/\ pc = "statistics"
        /\ collector.index <= Len(collector.statsMessages)
        /\ Len(collector.statsMessages[collector.index]) < HeaderSize)
       => /\ ParseMessage(collector.statsMessages[collector.index],
                          "statistics", ClockNow).err # NoError
          /\ collector'.gauges = collector.gauges
          /\ collector'.log = Append(collector.log,
                                     "Failed to parse statistics message")
    /\ (/\ pc = "accounting"
        /\ collector.index <= Len(collector.accountingMessages)
        /\ Len(collector.accountingMessages[collector.index]) < HeaderSize)
       => /\ ParseMessage(collector.accountingMessages[collector.index],
                          "accounting", ClockNow).err # NoError
          /\ collector'.gauges = collector.gauges
          /\ collector'.log = Append(collector.log,
                                     "Failed to parse accounting message")

(* A batch of the cycle held a buffer too short for a header.              *)
RetrievedShortMessage(c) ==
    \/ \E k \in DOMAIN c.statsMessages : Len(c.statsMessages[k]) < HeaderSize
    \/ \E k \in DOMAIN c.accountingMessages :
           Len(c.accountingMessages[k]) < HeaderSize

(* C20: a retrieved message too short for a header is answered with an     *)
(* error by the decoder, updates no gauge, is logged, and is counted: when *)
(* the cycle that retrieved it is over, the error count of the collector   *)
(* has increased.                                                          *)
C20_ShortMessageDroppedCountedLogged ==
    [][ /\ ShortMessageDroppedAndLogged
        /\ (pc' = "stopped" /\ RetrievedShortMessage(collector'))
               => collector'.errorCount > collector.errorCount ]_vars


----------------------------------------------------------------------------
(* The MQ client. The calls into the MQ library (Connx, Open, Close, Get,  *)
(* Disc) are outside the program: whether one succeeds is an input, and    *)
(* every call made is appended to the variable calls.                      *)

(* Values of an object handle as GetValue reports it: the zero value of a  *)
(* handle never opened, the value of an open one, and the value the        *)
(* library leaves after Close.                                             *)
Handle == [zero |-> 0, open |-> 1, unusable |-> -1]

(* What Close may leave in a handle (its error is not looked at).          *)
ClosedHandles == {Handle.zero, Handle.unusable, Handle.open}

(* NewMQClient.                                                            *)
NewMQClient ==
    [connected  |-> FALSE,
     qmgr       |-> Handle.zero,
     statsQueue |-> Handle.zero,
     acctQueue  |-> Handle.zero]

(* Connect: the client, the error and the library calls that result;       *)
(* connxOk says whether Connx succeeds if it is called.                    *)
Connect(c, connxOk) ==
    IF c.connected
    THEN [client |-> c, err |-> NoError, lib |-> << >>]
    ELSE IF ~connxOk
    THEN [client |-> c,
          err    |-> "failed to connect to queue manager",
          lib    |-> << "Connx failed" >>]
    ELSE [client |-> [c EXCEPT !.qmgr = Handle.open, !.connected = TRUE],
          err    |-> NoError,
          lib    |-> << "Connx" >>]

(* Disconnect, the two queues: one that is open (GetValue not 0) is        *)
(* closed; closed is the handle value the library leaves.                  *)
CloseQueues(c, closed) ==
    [c EXCEPT !.statsQueue = IF @ # Handle.zero THEN closed ELSE @,
              !.acctQueue  = IF @ # Handle.zero THEN closed ELSE @]

CloseCalls(c) ==
    (IF c.statsQueue # Handle.zero THEN << "Close stats" >> ELSE << >>)
    \o (IF c.acctQueue # Handle.zero THEN << "Close accounting" >> ELSE << >>)

(* A Disconnect that forgets the connection even when Disc fails.          *)
DisconnectForgetsOnFailure(c, discOk, closed) ==
    IF ~c.connected
    THEN [client |-> c, err |-> NoError, lib |-> << >>]
    ELSE [client |-> [CloseQueues(c, closed) EXCEPT !.connected = FALSE],
          err    |-> IF discOk THEN NoError ELSE "MQDISC failed",
          lib    |-> CloseCalls(c) \o << IF discOk THEN "Disc" ELSE "Disc failed" >>]

(* IsConnected.                                                            *)
IsConnected(c) == c.connected

(* Disconnect; discOk says whether Disc succeeds if it is called.          *)
Disconnect(c, discOk, closed) ==
    IF ~c.connected
    THEN [client |-> c, err |-> NoError, lib |-> << >>]
    ELSE IF ~discOk
    THEN [client |-> CloseQueues(c, closed),
          err    |-> "MQDISC failed",
          lib    |-> CloseCalls(c) \o << "Disc failed" >>]
    ELSE [client |-> [CloseQueues(c, closed) EXCEPT !.connected = FALSE],
          err    |-> NoError,
          lib    |-> CloseCalls(c) \o << "Disc" >>]

(* An OpenStatsQueue that does not look at connected.                      *)
OpenStatsQueueUnchecked(c, openOk) ==
    IF ~openOk
    THEN [client |-> c,
          err    |-> "failed to open statistics queue",
          lib    |-> << "Open stats failed" >>]
    ELSE [client |-> [c EXCEPT !.statsQueue = Handle.open],
          err    |-> NoError,
          lib    |-> << "Open stats" >>]

(* OpenStatsQueue; openOk says whether Open succeeds if it is called.      *)
OpenStatsQueue(c, openOk) ==
    IF ~c.connected
    THEN [client |-> c, err |-> "not connected to queue manager", lib |-> << >>]
    ELSE IF ~openOk
    THEN [client |-> c,
          err    |-> "failed to open statistics queue",
          lib    |-> << "Open stats failed" >>]
    ELSE [client |-> [c EXCEPT !.statsQueue = Handle.open],
          err    |-> NoError,
          lib    |-> << "Open stats" >>]

(* OpenAccountingQueue.                                                    *)
OpenAccountingQueue(c, openOk) ==
    IF ~c.connected
    THEN [client |-> c, err |-> "not connected to queue manager", lib |-> << >>]
    ELSE IF ~openOk
    THEN [client |-> c,
          err    |-> "failed to open accounting queue",
          lib    |-> << "Open accounting failed" >>]
    ELSE [client |-> [c EXCEPT !.acctQueue = Handle.open],
          err    |-> NoError,
          lib    |-> << "Open accounting" >>]


(* The handle GetMessage selects, Handle.zero for an unknown queue type.   *)
QueueOf(c, queueType) ==
    IF queueType = "stats" THEN c.statsQueue
    ELSE IF queueType = "accounting" THEN c.acctQueue
    ELSE Handle.zero

(* What the queue manager will answer to the next gets on a queue: a       *)
(* message or a failure; when the sequence is used up no message is        *)
(* available.                                                              *)
Failure == [ok |-> FALSE, data |-> << >>]

Message(bytes) == [ok |-> TRUE, data |-> bytes]

RepliesOf(qs, queueType) ==
    IF queueType = "stats" THEN qs.stats
    ELSE IF queueType = "accounting" THEN qs.accounting
    ELSE << >>

(* GetAllMessages from the replies left: the messages appended so far are  *)
(* got. The result holds the slice and the error returned, the replies     *)
(* left on the queue and the library calls made. A nil slice is << >>.     *)
RECURSIVE GetAllFrom(_, _, _, _)
GetAllFrom(c, queueType, replies, got) ==
    IF queueType \notin {"stats", "accounting"}
    THEN [messages |-> << >>, err |-> "unknown queue type",
          rest |-> replies, lib |-> << >>]
    ELSE IF QueueOf(c, queueType) = Handle.zero
    THEN [messages |-> << >>, err |-> "queue is not open",
          rest |-> replies, lib |-> << >>]
    ELSE IF QueueOf(c, queueType) # Handle.open
    THEN [messages |-> << >>, err |-> "failed to get message",
          rest |-> replies, lib |-> << "Get failed" >>]
    ELSE IF replies = << >>
    THEN [messages |-> got, err |-> NoError,
          rest |-> replies, lib |-> << "Get no message" >>]
    ELSE IF Head(replies) = Failure
    THEN [messages |-> << >>, err |-> "failed to get message",
          rest |-> Tail(replies), lib |-> << "Get failed" >>]
    ELSE [GetAllFrom(c, queueType, Tail(replies),
                     Append(got, [Data |-> Head(replies).data,
                                  Type |-> queueType]))
             EXCEPT !.lib = << "Get" >> \o @]

(* A GetAllMessages that returns the messages it got before a failure.    *)
GetAllMessagesUntilFailure(c, qs, queueType) ==
    LET r == GetAllFrom(c, queueType, RepliesOf(qs, queueType), << >>)
    IN  IF r.err = "failed to get message" /\ Len(r.lib) > 1
        THEN [r EXCEPT !.messages =
                 [i \in 1..(Len(r.lib) - 1) |->
                     [Data |-> RepliesOf(qs, queueType)[i].data,
                      Type |-> queueType]]]
        ELSE r

GetAllMessages(c, qs, queueType) ==
    GetAllFrom(c, queueType, RepliesOf(qs, queueType), << >>)

(* The queues after a call of GetAllMessages.                              *)
QueuesAfter(c, qs, queueType) ==
    IF queueType = "stats"
    THEN [qs EXCEPT !.stats = GetAllMessages(c, qs, queueType).rest]
    ELSE IF queueType = "accounting"
    THEN [qs EXCEPT !.accounting = GetAllMessages(c, qs, queueType).rest]
    ELSE qs

(* The methods of a client called one after the other, in any order.       *)

(* The most calls of methods followed in one behaviour, and the most       *)
(* replies the statistics queue holds at the start.                        *)
MaxClientCalls == 3
MaxReplies == 2

(* The replies: two messages and a failure.                                *)
Replies == {Message(<< 1 >>), Message(<< 2 >>), Failure}

QueueTypes == {"stats", "accounting", "other"}

MethodCalls(made) ==
    Cardinality({k \in DOMAIN made :
        made[k] \in {"Connect", "Disconnect", "OpenStatsQueue",
                     "OpenAccountingQueue", "GetAllMessages"}})

InitClient ==
    /\ data = << >>
    /\ msgType = "statistics"
    /\ pc = "client"
    /\ header = Nil
    /\ offset = 0
    /\ parameters = << >>
    /\ result = Nil
    /\ err = NoError
    /\ built = Nil
    /\ collector = Nil
    /\ client = NewMQClient
    /\ \E sr \in SeqUpTo(MaxReplies, Replies), ar \in {<< >>, << Message(<< 2 >>) >>} :
          queues = [stats |-> sr, accounting |-> ar]
    /\ ctx = Nil
    /\ calls = << >>

ConnectCall ==
    /\ MethodCalls(calls) < MaxClientCalls
    /\ \E connxOk \in BOOLEAN :
          /\ client' = Connect(client, connxOk).client
          /\ err' = Connect(client, connxOk).err
          /\ calls' = Append(calls, "Connect") \o Connect(client, connxOk).lib
    /\ UNCHANGED << data, msgType, pc, header, offset, parameters, result,
                    built, collector, queues, ctx >>

DisconnectCall ==
    /\ MethodCalls(calls) < MaxClientCalls
    /\ \E discOk \in BOOLEAN, closed \in ClosedHandles :
          /\ client' = Disconnect(client, discOk, closed).client
          /\ err' = Disconnect(client, discOk, closed).err
          /\ calls' = Append(calls, "Disconnect")
                      \o Disconnect(client, discOk, closed).lib
    /\ UNCHANGED << data, msgType, pc, header, offset, parameters, result,
                    built, collector, queues, ctx >>

OpenStatsQueueCall ==
    /\ MethodCalls(calls) < MaxClientCalls
    /\ \E openOk \in BOOLEAN :
          /\ client' = OpenStatsQueue(client, openOk).client
          /\ err' = OpenStatsQueue(client, openOk).err
          /\ calls' = Append(calls, "OpenStatsQueue")
                      \o OpenStatsQueue(client, openOk).lib
    /\ UNCHANGED << data, msgType, pc, header, offset, parameters, result,
                    built, collector, queues, ctx >>

OpenAccountingQueueCall ==
    /\ MethodCalls(calls) < MaxClientCalls
    /\ \E openOk \in BOOLEAN :
          /\ client' = OpenAccountingQueue(client, openOk).client
          /\ err' = OpenAccountingQueue(client, openOk).err
          /\ calls' = Append(calls, "OpenAccountingQueue")
                      \o OpenAccountingQueue(client, openOk).lib
    /\ UNCHANGED << data, msgType, pc, header, offset, parameters, result,
                    built, collector, queues, ctx >>

(* GetAllMessages; the slice it returns is kept in result and the queue    *)
(* type asked for in msgType.                                              *)
GetAllMessagesCall ==
    /\ MethodCalls(calls) < MaxClientCalls
    /\ \E queueType \in QueueTypes :
          /\ msgType' = queueType
          /\ result' = GetAllMessages(client, queues, queueType).messages
          /\ err' = GetAllMessages(client, queues, queueType).err
          /\ queues' = QueuesAfter(client, queues, queueType)
          /\ calls' = Append(calls, "GetAllMessages")
                      \o GetAllMessages(client, queues, queueType).lib
    /\ UNCHANGED << data, pc, header, offset, parameters, built, collector,
                    client, ctx >>

NextClient ==
    \/ ConnectCall
    \/ DisconnectCall
    \/ OpenStatsQueueCall
    \/ OpenAccountingQueueCall
    \/ GetAllMessagesCall

SpecClient == InitClient /\ [][NextClient]_vars

----------------------------------------------------------------------------
(* The life of a collector: NewCollector, Start, the collection loop and   *)
(* Stop. A collection cycle is taken as a whole here (the queues hold no   *)
(* messages): collectMetrics succeeds or fails.                            *)

(* The most ticks of the ticker followed in one behaviour.                 *)
MaxTicks == 3

(* The configurations: single cycle or continuous, the maximum number of   *)
(* cycles (0 = no maximum), with or without the OTel provider.             *)
CycleLimits == {0, 1, 2}

Configs ==
    [Continuous : BOOLEAN, MaxCycles : CycleLimits, EnableOTel : BOOLEAN]

(* NewCollector.                                                           *)
NewCollector(cfg) ==
    [config                  |-> cfg,
     running                 |-> FALSE,
     cycleCount              |-> 0,
     totalStatsMessages      |-> 0,
     totalAccountingMessages |-> 0,
     totalCollections        |-> 0,
     errorCount              |-> 0]

(* collectMetrics can succeed only when both queues are open: the read of  *)
(* a queue that is not open fails.                                         *)
CanCollect(cl) ==
    /\ cl.connected
    /\ cl.statsQueue = Handle.open
    /\ cl.acctQueue = Handle.open

(* collectMetrics that succeeds: the collection is counted.                *)
Collected(c) == [c EXCEPT !.totalCollections = @ + 1]

(* The caller of collectMetrics after a failure: the error is counted.     *)
CollectFailed(c) == [c EXCEPT !.errorCount = @ + 1]

(* Start on a collector that is running: an error, nothing else.           *)
StartAlreadyRunning ==
    /\ pc = "start"
    /\ collector.running
    /\ err' = "collector is already running"
    /\ pc' = "idle"
    /\ UNCHANGED << data, msgType, header, offset, parameters, result, built,
                    collector, clientVars >>

(* Start, Connect fails: the error is returned.                            *)
StartConnectFails ==
    /\ pc = "start"
    /\ ~collector.running
    /\ Connect(client, FALSE).err # NoError
    /\ calls' = calls \o Connect(client, FALSE).lib
    /\ err' = "failed to connect to IBM MQ"
    /\ pc' = "idle"
    /\ UNCHANGED << data, msgType, header, offset, parameters, result, built,
                    collector, client, queues, ctx >>

(* The client after Connect succeeded and the two queues were opened (a    *)
(* queue that cannot be opened is only warned about).                      *)
Opened(cl, statsOk, acctOk) ==
    OpenAccountingQueue(
        OpenStatsQueue(Connect(cl, TRUE).client, statsOk).client, acctOk).client

OpenCalls(cl, statsOk, acctOk) ==
    Connect(cl, TRUE).lib
    \o OpenStatsQueue(Connect(cl, TRUE).client, statsOk).lib
    \o OpenAccountingQueue(
           OpenStatsQueue(Connect(cl, TRUE).client, statsOk).client, acctOk).lib

(* Start, the HTTP server of the OTel provider does not start: the error   *)
(* is returned after the client has been connected.                        *)
StartOTelFails ==
    /\ pc = "start"
    /\ ~collector.running
    /\ collector.config.EnableOTel
    /\ \E statsOk \in BOOLEAN, acctOk \in BOOLEAN :
          /\ client' = Opened(client, statsOk, acctOk)
          /\ calls' = calls \o OpenCalls(client, statsOk, acctOk)
    /\ err' = "failed to start OTel HTTP server"
    /\ pc' = "idle"
    /\ UNCHANGED << data, msgType, header, offset, parameters, result, built,
                    collector, queues, ctx >>

(* Start up to the call of runContinuous or runOnce.                       *)
StartRuns ==
    /\ pc = "start"
    /\ ~collector.running
    /\ \E statsOk \in BOOLEAN, acctOk \in BOOLEAN :
          /\ client' = Opened(client, statsOk, acctOk)
          /\ calls' = calls \o OpenCalls(client, statsOk, acctOk)
    /\ collector' = [collector EXCEPT !.running = TRUE]
    /\ pc' = IF collector.config.Continuous THEN "initial" ELSE "once"
    /\ UNCHANGED << data, msgType, header, offset, parameters, result, err,
                    built, queues, ctx >>

(* runOnce: one call of collectMetrics; a failure is counted and returned. *)
RunOnce ==
    /\ pc = "once"
    /\ \/ /\ CanCollect(client)
          /\ collector' = Collected(collector)
          /\ calls' = Append(calls, "collectMetrics")
          /\ err' = NoError
       \/ /\ collector' = CollectFailed(collector)
          /\ calls' = Append(calls, "collectMetrics failed")
          /\ err' = "collection failed"
    /\ pc' = "idle"
    /\ UNCHANGED << data, msgType, header, offset, parameters, result, built,
                    client, queues, ctx >>

(* runContinuous, the collection made before the loop.                     *)
InitialCollection ==
    /\ pc = "initial"
    /\ \/ /\ CanCollect(client)
          /\ collector' = Collected(collector)
          /\ calls' = Append(calls, "collectMetrics")
       \/ /\ collector' = CollectFailed(collector)
          /\ calls' = Append(calls, "collectMetrics failed")
    /\ pc' = "loop"
    /\ UNCHANGED << data, msgType, header, offset, parameters, result, err,
                    built, client, queues, ctx >>

(* runContinuous, case <-ctx.Done(): the error of the context is returned. *)
ContextDone ==
    /\ pc = "loop"
    /\ collector.running
    /\ ctx = "cancelled"
    /\ err' = "context canceled"
    /\ pc' = "idle"
    /\ UNCHANGED << data, msgType, header, offset, parameters, result, built,
                    collector, client, queues, ctx, calls >>

(* Fault variant of Ticked: the maximum is compared with the count before  *)
(* the tick.                                                               *)
TickedComparedBefore(c) ==
    [c EXCEPT !.cycleCount = @ + 1,
              !.running = ~(c.config.MaxCycles > 0
                            /\ c.cycleCount >= c.config.MaxCycles)]

(* The collector after the cycle of a tick: the tick is counted, and the   *)
(* loop is left when a positive maximum is reached.                        *)
Ticked(c) ==
    [c EXCEPT !.cycleCount = @ + 1,
              !.running = ~(c.config.MaxCycles > 0
                            /\ c.cycleCount + 1 >= c.config.MaxCycles)]

(* runContinuous, case <-ticker.C.                                         *)
Tick ==
    /\ pc = "loop"
    /\ collector.running
    /\ collector.cycleCount < MaxTicks
    /\ \/ /\ CanCollect(client)
          /\ collector' = Ticked(Collected(collector))
          /\ calls' = Append(calls, "collectMetrics")
       \/ /\ collector' = Ticked(CollectFailed(collector))
          /\ calls' = Append(calls, "collectMetrics failed")
    /\ pc' = IF collector'.running THEN "loop" ELSE "idle"
    /\ err' = IF collector'.running THEN err ELSE NoError
    /\ UNCHANGED << data, msgType, header, offset, parameters, result, built,
                    client, queues, ctx >>

(* A shutdown signal: the goroutine of runCollector cancels the context.   *)
Cancel ==
    /\ pc \in {"start", "once", "initial", "loop"}
    /\ ctx = "active"
    /\ ctx' = "cancelled"
    /\ UNCHANGED << data, msgType, pc, header, offset, parameters, result, err,
                    built, collector, client, queues, calls >>

(* Fault variant of Stop: the client is disconnected whether or not the    *)
(* collector is running.                                                   *)
StopAlwaysDisconnects(c, cl, discOk, closed) ==
    [collector |-> [c EXCEPT !.running = FALSE],
     client    |-> Disconnect(cl, discOk, closed).client,
     err       |-> Disconnect(cl, discOk, closed).err,
     lib       |-> Disconnect(cl, discOk, closed).lib]

(* Stop: nothing on a collector that is not running; otherwise the         *)
(* collector is marked stopped and the client disconnected, and the error  *)
(* of Disconnect is returned.                                              *)
Stop(c, cl, discOk, closed) ==
    IF ~c.running
    THEN [collector |-> c, client |-> cl, err |-> NoError, lib |-> << >>]
    ELSE [collector |-> [c EXCEPT !.running = FALSE],
          client    |-> Disconnect(cl, discOk, closed).client,
          err       |-> Disconnect(cl, discOk, closed).err,
          lib       |-> Disconnect(cl, discOk, closed).lib]


(* runCollector: a new collector on a new client, the context not          *)
(* cancelled, and Start about to be called.                                *)
InitRun ==
    /\ data = << >>
    /\ msgType = "statistics"
    /\ pc = "start"
    /\ header = Nil
    /\ offset = 0
    /\ parameters = << >>
    /\ result = Nil
    /\ err = NoError
    /\ built = Nil
    /\ \E cfg \in Configs : collector = NewCollector(cfg)
    /\ client = NewMQClient
    /\ queues = Nil
    /\ ctx = "active"
    /\ calls = << >>

(* runCollector, Start returned an error: runCollector returns (nil when   *)
(* the error is that of the cancelled context) without calling Stop.       *)
ExitOnError ==
    /\ pc = "idle"
    /\ err # NoError
    /\ pc' = "exited"
    /\ UNCHANGED << data, msgType, header, offset, parameters, result, err,
                    built, collector, clientVars >>

(* runCollector, Start returned nil: Stop is called and its error, if      *)
(* any, returned.                                                          *)
Shutdown ==
    /\ pc = "idle"
    /\ err = NoError
    /\ \E discOk \in BOOLEAN, closed \in ClosedHandles :
          /\ collector' = Stop(collector, client, discOk, closed).collector
          /\ client' = Stop(collector, client, discOk, closed).client
          /\ err' = Stop(collector, client, discOk, closed).err
          /\ calls' = calls \o Stop(collector, client, discOk, closed).lib
    /\ pc' = "exited"
    /\ UNCHANGED << data, msgType, header, offset, parameters, result, built,
                    queues, ctx >>

NextRun ==
    \/ StartConnectFails
    \/ StartOTelFails
    \/ StartRuns
    \/ RunOnce
    \/ InitialCollection
    \/ ContextDone
    \/ Tick
    \/ Cancel
    \/ ExitOnError
    \/ Shutdown

SpecRun == InitRun /\ [][NextRun]_vars


(* Start and Stop called one after the other, in any order, on one         *)
(* collector, as a program using the package may call them.                *)

(* The most calls of Start and Stop followed in one behaviour.             *)
MaxCalls == 3

ApiCalls(made) ==
    Cardinality({k \in DOMAIN made : made[k] \in {"Start", "Stop"}})

InitLifecycle ==
    /\ data = << >>
    /\ msgType = "statistics"
    /\ pc = "idle"
    /\ header = Nil
    /\ offset = 0
    /\ parameters = << >>
    /\ result = Nil
    /\ err = NoError
    /\ built = Nil
    /\ \E cfg \in Configs : collector = NewCollector(cfg)
    /\ client = NewMQClient
    /\ queues = Nil
    /\ ctx = "active"
    /\ calls = << >>

(* Start is called, with a context that is not cancelled.                  *)
CallStart ==
    /\ pc = "idle"
    /\ ApiCalls(calls) < MaxCalls
    /\ calls' = Append(calls, "Start")
    /\ ctx' = "active"
    /\ pc' = "start"
    /\ UNCHANGED << data, msgType, header, offset, parameters, result, err,
                    built, collector, client, queues >>

(* Stop is called and returns.                                             *)
CallStop ==
    /\ pc = "idle"
    /\ ApiCalls(calls) < MaxCalls
    /\ \E discOk \in BOOLEAN, closed \in ClosedHandles :
          /\ collector' = Stop(collector, client, discOk, closed).collector
          /\ client' = Stop(collector, client, discOk, closed).client
          /\ err' = Stop(collector, client, discOk, closed).err
          /\ calls' = Append(calls, "Stop")
                      \o Stop(collector, client, discOk, closed).lib
    /\ UNCHANGED << data, msgType, pc, header, offset, parameters, result,
                    built, queues, ctx >>

NextLifecycle ==
    \/ CallStart
    \/ CallStop
    \/ StartAlreadyRunning
    \/ StartConnectFails
    \/ StartOTelFails
    \/ StartRuns
    \/ RunOnce
    \/ InitialCollection
    \/ ContextDone
    \/ Tick
    \/ Cancel

SpecLifecycle == InitLifecycle /\ [][NextLifecycle]_vars

----------------------------------------------------------------------------
(* The number of calls of collectMetrics among the calls made.             *)
Collections(made) ==
    Cardinality({k \in DOMAIN made :
                    made[k] \in {"collectMetrics", "collectMetrics failed"}})

(* C21: in continuous mode with a maximum of N > 0 cycles, one Start makes *)
(* at most N calls of collectMetrics and then stops; with N = 0 the loop   *)
(* is left only when the context is cancelled.                             *)
C21_AtMostMaxCycles ==
    [][ /\ (collector.config.Continuous /\ collector.config.MaxCycles > 0)
            => Collections(calls') <= collector.config.MaxCycles
        /\ (pc = "loop" /\ pc' # "loop" /\ collector.config.MaxCycles = 0)
            => ctx = "cancelled" ]_vars


(* C22: a new collector is not running and its counters are zero; Stop on  *)
(* a collector that is not running returns no error, changes neither the   *)
(* collector nor the client and makes no call to the MQ library; Start on  *)
(* a running collector returns an error and changes neither the collector  *)
(* nor the client, makes no call to the MQ library and enters no loop.     *)
C22_IdleStopAndSecondStart ==
    [][ /\ calls = << >> =>
               /\ ~collector.running
               /\ collector.cycleCount = 0
               /\ collector.totalStatsMessages = 0
               /\ collector.totalAccountingMessages = 0
               /\ collector.totalCollections = 0
               /\ collector.errorCount = 0
        /\ (pc = "idle" /\ pc' = "idle" /\ ~collector.running) =>
               /\ err' = NoError
               /\ collector' = collector
               /\ client' = client
               /\ calls' = Append(calls, "Stop")
        /\ (pc = "start" /\ pc' # "start" /\ collector.running) =>
               /\ err' # NoError
               /\ pc' = "idle"
               /\ collector' = collector
               /\ client' = client
               /\ calls' = calls ]_vars

(* Stop was called on the new collector, a single cycle was run by a first *)
(* Start, and a second Start has been refused.                             *)
C22_Witness ==
    /\ pc = "idle"
    /\ calls = << "Stop", "Start", "Connx", "Open stats", "Open accounting",
                  "collectMetrics", "Start" >>
    /\ err = "collector is already running"
    /\ collector.running
    /\ client.connected

----------------------------------------------------------------------------
(* The calls of Connect and Disconnect that returned no error, read from   *)
(* the calls made: a Connect failed when Connx failed right after it, a    *)
(* Disconnect failed when Disc failed after the queues were closed.        *)
ConnectSucceeded(made, k) ==
    /\ made[k] = "Connect"
    /\ (k = Len(made) \/ made[k + 1] # "Connx failed")

DisconnectSucceeded(made, k) ==
    /\ made[k] = "Disconnect"
    /\ ~ \E j \in (k + 1)..Len(made) :
            /\ made[j] = "Disc failed"
            /\ \A i \in (k + 1)..(j - 1) :
                  made[i] \in {"Close stats", "Close accounting"}

ConnectedByHistory(made) ==
    \E k \in DOMAIN made :
        /\ ConnectSucceeded(made, k)
        /\ \A j \in (k + 1)..Len(made) : ~DisconnectSucceeded(made, j)

(* The method a step calls.                                                *)
Calling(method) ==
    /\ Len(calls') > Len(calls)
    /\ calls'[Len(calls) + 1] = method

(* C23: over any sequence of Connect and Disconnect calls IsConnected is   *)
(* true exactly when the last Connect that succeeded is not followed by a  *)
(* Disconnect that succeeded; a Connect that fails leaves the client not   *)
(* connected; Connect on a connected client returns no error and does not  *)
(* connect again; Disconnect on a client that is not connected returns no  *)
(* error and changes nothing.                                              *)
C23_ConnectedFollowsHistory ==
    [][ /\ IsConnected(client) <=> ConnectedByHistory(calls)
        /\ IsConnected(client') <=> ConnectedByHistory(calls')
        /\ (Calling("Connect") /\ err' # NoError) => ~IsConnected(client')
        /\ (Calling("Connect") /\ IsConnected(client))
              => /\ err' = NoError
                 /\ client' = client
                 /\ calls' = Append(calls, "Connect")
        /\ (Calling("Disconnect") /\ ~IsConnected(client))
              => /\ err' = NoError
                 /\ client' = client
                 /\ calls' = Append(calls, "Disconnect") ]_vars

C23_Witness ==
    /\ pc = "client"
    /\ calls = << "Connect", "Connx", "Disconnect", "Disc failed", "Connect" >>
    /\ err = NoError
    /\ IsConnected(client)

----------------------------------------------------------------------------
(* Whether Open has succeeded for the queue of a type, read from the calls *)
(* made.                                                                   *)
OpenedByHistory(made, queueType) ==
    \E k \in DOMAIN made :
        \/ queueType = "stats" /\ made[k] = "Open stats"
        \/ queueType = "accounting" /\ made[k] = "Open accounting"

(* C24: OpenStatsQueue and OpenAccountingQueue on a client that is not     *)
(* connected return an error and leave the state unchanged; GetAllMessages *)
(* returns an error and nil when the queue type is neither "stats" nor     *)
(* "accounting" or the queue of that type has not been opened.             *)
C24_OpenAndGetNeedConnection ==
    [][ /\ (Calling("OpenStatsQueue") /\ ~IsConnected(client))
              => /\ err' # NoError
                 /\ client' = client
                 /\ queues' = queues
                 /\ calls' = Append(calls, "OpenStatsQueue")
        /\ (Calling("OpenAccountingQueue") /\ ~IsConnected(client))
              => /\ err' # NoError
                 /\ client' = client
                 /\ queues' = queues
                 /\ calls' = Append(calls, "OpenAccountingQueue")
        /\ (/\ Calling("GetAllMessages")
            /\ \/ msgType' \notin {"stats", "accounting"}
               \/ ~OpenedByHistory(calls, msgType'))
              => /\ err' # NoError
                 /\ result' = << >> ]_vars

C24_Witness ==
    /\ pc = "client"
    /\ calls = << "OpenStatsQueue", "OpenAccountingQueue", "GetAllMessages" >>
    /\ msgType = "stats"
    /\ queues.stats # << >>
    /\ err = "queue is not open"
    /\ result = << >>
    /\ client = NewMQClient

----------------------------------------------------------------------------
(* The place of the first failure among the replies of a queue, one past   *)
(* the end when there is none.                                             *)
FirstFailure(replies) ==
    IF \E k \in DOMAIN replies : ~replies[k].ok
    THEN CHOOSE k \in DOMAIN replies :
            /\ ~replies[k].ok
            /\ \A j \in 1..(k - 1) : replies[j].ok
    ELSE Len(replies) + 1

(* The messages GetAllMessages is to deliver when no get fails.            *)
InRetrievalOrder(replies, queueType) ==
    [i \in DOMAIN replies |-> [Data |-> replies[i].data, Type |-> queueType]]

(* C30: GetAllMessages on an open queue returns the messages of that one   *)
(* queue in the order they were retrieved and ends, without an error, at   *)
(* the first reply that no message is available; when a get fails for      *)
(* another reason it returns nil with the error, so the messages removed   *)
(* from the queue earlier in the same call are not delivered.              *)
C30_AllMessagesOrNone ==
    [][ (Calling("GetAllMessages") /\ QueueOf(client, msgType') = Handle.open)
           => IF FirstFailure(RepliesOf(queues, msgType'))
                   > Len(RepliesOf(queues, msgType'))
              THEN /\ err' = NoError
                   /\ result' = InRetrievalOrder(RepliesOf(queues, msgType'),
                                                 msgType')
                   /\ RepliesOf(queues', msgType') = << >>
                   /\ calls'[Len(calls')] = "Get no message"
              ELSE /\ err' # NoError
                   /\ result' = << >>
                   /\ RepliesOf(queues', msgType')
                        = SubSeq(RepliesOf(queues, msgType'),
                                 FirstFailure(RepliesOf(queues, msgType')) + 1,
                                 Len(RepliesOf(queues, msgType')))
                   /\ calls'[Len(calls')] = "Get failed" ]_vars

C30_Witness ==
    /\ pc = "client"
    /\ calls = << "Connect", "Connx", "OpenStatsQueue", "Open stats",
                  "GetAllMessages", "Get", "Get failed" >>
    /\ msgType = "stats"
    /\ queues.stats = << >>
    /\ err = "failed to get message"
    /\ result = << >>

----------------------------------------------------------------------------
(* The configuration and its validation. A time.Duration counts            *)
(* nanoseconds in 64 bits; it is kept here as whole seconds and the         *)
(* nanoseconds beyond them (0..999999999), compared as the one number.      *)
Duration(sec, nsec) == [sec |-> sec, nsec |-> nsec]

Second == Duration(1, 0)

DurationLess(d, e) ==
    \/ d.sec < e.sec
    \/ d.sec = e.sec /\ d.nsec < e.nsec

(* DefaultConfig, the fields Validate reads.                               *)
DefaultConfig ==
    [MQ         |-> [QueueManager   |-> "MQQM1",
                     Channel        |-> "APP1.SVRCONN",
                     ConnectionName |-> "localhost(1414)"],
     Collector  |-> [Interval |-> Duration(60, 0)],
     Prometheus |-> [Port |-> 9090]]

(* A Validate whose port range starts at 0.                                *)
ValidateAcceptsPortZero(c) ==
    IF c.MQ.QueueManager = "" THEN "queue manager name is required"
    ELSE IF c.MQ.Channel = "" THEN "channel name is required"
    ELSE IF c.MQ.ConnectionName = "" THEN "connection name is required"
    ELSE IF DurationLess(c.Collector.Interval, Second)
    THEN "collection interval must be at least 1 second"
    ELSE IF c.Prometheus.Port < 0 \/ c.Prometheus.Port > 65535
    THEN "prometheus port must be between 1 and 65535"
    ELSE NoError

(* Validate: the error returned.                                           *)
Validate(c) ==
    IF c.MQ.QueueManager = "" THEN "queue manager name is required"
    ELSE IF c.MQ.Channel = "" THEN "channel name is required"
    ELSE IF c.MQ.ConnectionName = "" THEN "connection name is required"
    ELSE IF DurationLess(c.Collector.Interval, Second)
    THEN "collection interval must be at least 1 second"
    ELSE IF c.Prometheus.Port < 1 \/ c.Prometheus.Port > 65535
    THEN "prometheus port must be between 1 and 65535"
    ELSE NoError

(* The values a configuration file, the environment and the flags put in   *)
(* place of the defaults.                                                  *)
Intervals ==
    {Duration(-1, 0), Duration(0, 0), Duration(0, 500000000),
     Duration(0, 999999999), Second, Duration(1, 1), Duration(60, 0)}

Ports == {-1, 0, 1, 9090, 65535, 65536}

LoadedConfigs ==
    {[MQ         |-> [QueueManager |-> qm, Channel |-> ch, ConnectionName |-> cn],
      Collector  |-> [Interval |-> iv],
      Prometheus |-> [Port |-> port]] :
        qm \in {"", "MQQM1"}, ch \in {"", "APP1.SVRCONN"},
        cn \in {"", "localhost(1414)"}, iv \in Intervals, port \in Ports}

InitConfig ==
    /\ data = << >>
    /\ msgType = "statistics"
    /\ pc = "load"
    /\ header = Nil
    /\ offset = 0
    /\ parameters = << >>
    /\ result = Nil
    /\ err = NoError
    /\ built = Nil
    /\ collector = Nil
    /\ NoClient

(* LoadConfig: the defaults, with fields replaced.                         *)
LoadConfig ==
    /\ pc = "load"
    /\ built' \in LoadedConfigs \cup {DefaultConfig}
    /\ pc' = "config"
    /\ UNCHANGED << data, msgType, header, offset, parameters, result, err,
                    collector, clientVars >>

(* A call of Validate on the configuration; Validate assigns to no field.  *)
ValidateCall ==
    /\ pc = "config"
    /\ err' = Validate(built)
    /\ pc' = "validated"
    /\ UNCHANGED << data, msgType, header, offset, parameters, result, built,
                    collector, clientVars >>

NextConfig ==
    \/ LoadConfig
    \/ ValidateCall

SpecConfig == InitConfig /\ [][NextConfig]_vars

----------------------------------------------------------------------------
(* The decoding of one buffer under the condition that a step that can be  *)
(* taken is taken in the end: the program runs on. The buffers hold up to  *)
(* MaxLoopParams pieces: a well-formed parameter, one whose length is no   *)
(* multiple of 4, one with the declared length -1, one that extends beyond *)
(* the data, and five stray bytes.                                         *)
MaxLoopParams == 2

LoopChunks ==
    { createTestIntParameter(MQIA_OPEN_INPUT_COUNT, 2),
      RawParameter(MQCA_Q_NAME, MQCFT_STRING, 15, << 81, 0, 88, 7 >>),
      RawParameter(MQIA_OPEN_INPUT_COUNT, MQCFT_INTEGER, -1, << 2, 0, 0, 0 >>),
      RawParameter(MQIA_OPEN_INPUT_COUNT, MQCFT_INTEGER, 20, << 2, 0, 0, 0 >>),
      << 1, 2, 3, 4, 5 >> }

LoopMessages ==
    { createTestPCFHeader(HeaderTypeOf(c), c, Len(chunks)) \o Concat(chunks) :
        c \in { MQCMD_STATISTICS_Q, MQCMD_ACCOUNTING_MQI, 153 },
        chunks \in SeqUpTo(MaxLoopParams, LoopChunks) }

InitTerminates ==
    /\ data \in LoopMessages \cup { Zeros(HeaderSize - 1) }
    /\ msgType = "statistics"
    /\ pc = "start"
    /\ header = Nil
    /\ offset = 0
    /\ parameters = << >>
    /\ result = Nil
    /\ err = NoError
    /\ built = Nil
    /\ collector = Nil
    /\ NoClient

SpecTerminates == InitTerminates /\ [][Next]_vars /\ WF_vars(Next)

(* C26: parseParameters terminates: each iteration either leaves the loop  *)
(* or moves the cursor forward by at least 12 bytes; the result holds at   *)
(* most floor(len / 12) parameters; fewer than 12 bytes left at the end    *)
(* are passed over without an error.                                       *)
C26_ParametersTerminate ==
    /\ [][ pc = "params" =>
             /\ pc' # "params" \/ offset' >= offset + 12
             /\ (offset < Len(Body) /\ Len(Body) - offset < 12)
                   => /\ pc' = "dispatch"
                      /\ err' = NoError
                      /\ parameters' = parameters ]_vars
    /\ [](Len(data) >= HeaderSize => Len(parameters) <= Len(Body) \div 12)
    /\ <>(pc = "done")

C26_Witness ==
    /\ pc = "done"
    /\ err = NoError
    /\ Len(parameters) = 1
    /\ offset = 16
    /\ Len(Body) - offset = 5

----------------------------------------------------------------------------
(* The end of the bytes read for the value of a parameter at the cursor,   *)
(* the start of the payload when no value is read.                         *)
PayloadEnd(off, type, length) ==
    IF type = MQCFT_INTEGER
    THEN IF length >= 16 THEN off + 16 ELSE off + 12
    ELSE IF type \in {MQCFT_STRING, MQCFT_BYTE_STRING}
    THEN IF length > 12 THEN off + 12 + (length - 12) ELSE off + 12
    ELSE off + 12

(* The declared length at the cursor has its highest bit set: as an        *)
(* unsigned number it is 2^31 or more.                                     *)
LengthHighBitSet(body, off) == body[off + 12] >= 128

(* C27: parseParameters never reads outside its buffer: the cursor is a    *)
(* multiple of 4 at the start of each iteration; a sub-header is read only *)
(* when cursor + 12 <= len; a payload is read only within                  *)
(* [cursor + 12, cursor + L) with cursor + L <= len; a declared length     *)
(* whose unsigned value is 2^31 or more is seen as negative and stops the  *)
(* decoding.                                                               *)
C27_ReadsStayInBuffer ==
    [][ pc = "params" =>
          /\ offset % 4 = 0
          /\ pc' = "params" => Len(parameters') = Len(parameters) + 1
          /\ parameters' # parameters
                => /\ offset + 12 <= Len(Body)
                   /\ Len(parameters') = Len(parameters) + 1
                   /\ LET p == parameters'[Len(parameters')]
                      IN  /\ p.Length = ParamAt(Body, offset).Length
                          /\ offset + p.Length <= Len(Body)
                          /\ PayloadEnd(offset, p.Type, p.Length)
                                <= offset + p.Length
          /\ (offset + 12 <= Len(Body) /\ LengthHighBitSet(Body, offset))
                => /\ ParamAt(Body, offset).Length < 0
                   /\ pc' = "dispatch"
                   /\ parameters' = parameters
          /\ (offset < Len(Body) /\ offset + 12 > Len(Body))
                => /\ pc' = "dispatch"
                   /\ parameters' = parameters ]_vars

C27_Witness ==
    /\ pc = "dispatch"
    /\ Len(parameters) = 1
    /\ offset = 16
    /\ offset + 12 <= Len(Body)
    /\ LengthHighBitSet(Body, offset)

----------------------------------------------------------------------------
(* Start has connected the client: Connx succeeded.                        *)
StartConnected == \E k \in DOMAIN calls : calls[k] = "Connx"

(* C28: once Start has connected the MQ client, every way a run ends,      *)
(* followed by the shutdown path of runCollector, leaves the client        *)
(* disconnected (a failure of the library's Disc apart). The ways are: the *)
(* single cycle finished, the maximum reached, a collection error in       *)
(* single-cycle mode, the context cancelled.                               *)
C28_DisconnectedAfterRun ==
    (/\ pc = "exited"
     /\ StartConnected
     /\ err \in {NoError, "MQDISC failed", "collection failed",
                 "context canceled"})
        => \/ ~IsConnected(client)
           \/ calls[Len(calls)] = "Disc failed"

----------------------------------------------------------------------------
(* The step is a call of collectMetrics that failed, or one that           *)
(* succeeded.                                                              *)
CycleFailed == calls' = Append(calls, "collectMetrics failed")

CycleSucceeded == calls' = Append(calls, "collectMetrics")

(* The counters after the initial collection and k ticks.                  *)
CountersAgree(c) ==
    /\ c.totalCollections + c.errorCount = c.cycleCount + 1
    /\ c.config.MaxCycles > 0 => c.cycleCount <= c.config.MaxCycles

(* C29: in continuous mode a cycle that fails adds one to errorCount and   *)
(* does not end the loop, a cycle that succeeds adds one to                *)
(* totalCollections; cycleCount counts the ticks: after the initial        *)
(* collection and k ticks cycleCount = k and totalCollections + errorCount *)
(* = k + 1; cycleCount never exceeds a positive maximum within one Start.  *)
C29_CountersFollowCycles ==
    [][ collector.config.Continuous =>
          /\ CycleFailed
                => /\ collector'.errorCount = collector.errorCount + 1
                   /\ collector'.totalCollections = collector.totalCollections
                   /\ \/ pc' = "loop"
                      \/ /\ collector.config.MaxCycles > 0
                         /\ collector'.cycleCount >= collector.config.MaxCycles
          /\ CycleSucceeded
                => /\ collector'.totalCollections = collector.totalCollections + 1
                   /\ collector'.errorCount = collector.errorCount
          /\ collector'.cycleCount =
                IF pc = "loop" /\ (CycleFailed \/ CycleSucceeded)
                THEN collector.cycleCount + 1
                ELSE collector.cycleCount
          /\ pc = "initial" => collector.cycleCount = 0
          /\ (pc \in {"initial", "loop"} /\ pc' \in {"loop", "idle"})
                => CountersAgree(collector') ]_vars

C29_Witness ==
    /\ pc = "loop"
    /\ collector.config.Continuous
    /\ collector.config.MaxCycles = 0
    /\ collector.cycleCount = 2
    /\ collector.errorCount = 1
    /\ collector.totalCollections = 2
    /\ calls[Len(calls) - 1] = "collectMetrics failed"

====
